---- MODULE Spec2Model ----
(***************************************************************************)
(* Model of proposal_core.py: the item parser (parse_data_from_excel) and  *)
(* the two renderers' value normalizers and vertical merge loops           *)
(* (render_html_string.render_table_html, generate_excel_bytes             *)
(* .write_section), and the tier discovery (load_price_options with        *)
(* scan_default_counts).                                                   *)
(*                                                                         *)
(* Text is modelled as a sequence of characters.  The Hangul syllables of  *)
(* the source's literals are written in romanised form, one token per      *)
(* syllable:                                                               *)
(*   seon taek = "select"          mi seon taek = "not selected"          *)
(*   gi bon    = "default"         geu rup      = "group"                  *)
(*   jang bi geom sa    = "equipment test"                                 *)
(*   so hwa gi geom sa  = "digestive test"                                 *)
(*   hyeol aek = "blood"           so byeon     = "urine"                  *)
(*   geom jin hang mok  = "checkup item"    nae yong = "content"           *)
(*   man won   = "ten thousand won", the unit marker of a tier label       *)
(* A blank cell (Python None) is the one-token sequence NoneVal, which no  *)
(* text contains.                                                          *)
(***************************************************************************)
EXTENDS Integers, Sequences, FiniteSets, TLC

VARIABLES
    pc,                 \* position of the call: "idle", then "rows", "done", "raised" (parser),
                        \* "opened", "header", "collected", "returned" (tier discovery)
    plans,              \* the plan list handed to the parser / the renderers
    width,              \* number of cells of every row sheet.iter_rows yields
    nrows,              \* rows of the sheet consumed so far
    row,                \* the loop variable `row` (last row read)
    current_main_cat,   \* "", "A", "B", "C", "EQUIP", "COMMON"
    fill_cache,         \* plan index -> [A, B, C -> cached text or NoneVal]
    parsed_data,        \* bucket key -> sequence of entries
    summary_info,       \* one entry per plan
    html,               \* render_html_string: per A/B/C table, the emitted value cells
    xl,                 \* generate_excel_bytes: per A/B/C table, the cell values and merged ranges
    xlrows,             \* generate_excel_bytes: the rows of the detail sheet's breaks and tables
    span_grid,          \* a grid of display values handed to both merge loops
    hmaps,              \* render_table_html: rowspan_map and skip_map per column of grid
    xmerges,            \* write_section: the merged ranges per column of grid
    header_row,         \* the header_row argument of the parse call
    err,                \* the exception a call ended with ("" when none)
    sheet,              \* the rows the current parse call has been given so far
    earlier,              \* arguments and result of an earlier finished parse call (NoCall when none is kept)
    wb,                 \* the workbook handle of load_price_options: "none", "open", "closed"
    lsheet,             \* the sheet load_price_options reads
    header_row_idx,     \* load_price_options: the header row found (NoneVal when none)
    price_cols,         \* load_price_options: the options collected so far
    ret,                \* load_price_options: the returned pair (NoneVal before the return)
    scan                \* scan_default_counts: its arguments and the counts it returned

parsevars == <<pc, plans, width, nrows, row, current_main_cat, fill_cache,
               parsed_data, summary_info, header_row, err>>
rendervars == <<html, xl, xlrows, span_grid, hmaps, xmerges>>
callvars == <<sheet, earlier>>
loadvars == <<wb, lsheet, header_row_idx, price_cols, ret, scan>>

vars == <<parsevars, rendervars, callvars, loadvars>>

----------------------------------------------------------------------------
(* Bounds *)

MaxRows == 3        \* sheet rows read by one parse call
MaxItems == 3       \* items handed to the renderers

----------------------------------------------------------------------------
(* Text *)

NoneVal == <<"None">>
EmptyStr == <<>>

SEL == <<"seon", "taek">>
MISEL == <<"mi", "seon", "taek">>
GIBON == <<"gi", "bon">>
AGRP == <<"A", "geu", "rup">>
BGRP == <<"B", "geu", "rup">>
CGRP == <<"C", "geu", "rup">>
JANGBI == <<"jang", "bi", "geom", "sa">>
SOHWAGI == <<"so", "hwa", "gi", "geom", "sa">>
HYEOLAEK == <<"hyeol", "aek">>
SOBYEON == <<"so", "byeon">>
GEOMJINHANGMOK == <<"geom", "jin", "hang", "mok">>
NAEYONG == <<"nae", "yong">>
DASH == <<"-">>

Whitespace == {" ", "TAB"}
Digits == {"0", "1", "2", "3", "4", "5", "6", "7", "8", "9"}

\* Python: sub in s
Contains(sub, s) ==
    \E i \in 0..(Len(s) - Len(sub)) :
        \A j \in 1..Len(sub) : s[i + j] = sub[j]

RECURSIVE LStrip(_)
LStrip(s) == IF s # <<>> /\ Head(s) \in Whitespace THEN LStrip(Tail(s)) ELSE s

RECURSIVE RStrip(_)
RStrip(s) ==
    IF s # <<>> /\ s[Len(s)] \in Whitespace
    THEN RStrip(SubSeq(s, 1, Len(s) - 1)) ELSE s

\* Python: s.strip()
Strip(s) == RStrip(LStrip(s))

\* Python: s.replace(" ", "")
RemoveSpaces(s) == SelectSeq(s, LAMBDA ch : ch # " ")

\* Python truthiness of a cell value (None and "" are falsy)
Truthy(v) == v # NoneVal /\ v # EmptyStr

\* Python: str(v).strip() if v else ""
CellText(v) == IF Truthy(v) THEN Strip(v) ELSE EmptyStr

----------------------------------------------------------------------------
(* Inputs of the parser: plan lists and sheet rows *)

Absent == <<"Absent">>      \* a rule key the plan dict does not hold

S2 == SEL \o <<" ", "2">>
S3 == SEL \o <<" ", "3">>
S5 == SEL \o <<" ", "5">>
OMark == <<"O">>
ItemName == <<"n">>
ItemDesc == <<"d">>
EtcLabel == <<"e", "t", "c">>

MkPlan(nm, col, a, b, c) ==
    [name |-> <<"p", nm>>, col_idx |-> col, a_rule |-> a, b_rule |-> b, c_rule |-> c]

PlanLists ==
    { <<>>,
      <<MkPlan("1", 4, Absent, Absent, Absent), MkPlan("2", 5, S2, DASH, MISEL)>>,
      <<MkPlan("3", 5, EmptyStr, S2, DASH), MkPlan("4", 4, DASH, EmptyStr, S2)>>,
      <<MkPlan("5", 6, S2, S2, S2), MkPlan("6", 4, MISEL, MISEL, EmptyStr)>>,
      <<MkPlan("7", 4, DASH, DASH, DASH)>> }

Widths == {1, 2, 5}

\* rows of a five-column sheet: label, item name, description, two tier columns
Rows5 ==
    { \* label-only rows
      <<BGRP \o AGRP, NoneVal, NoneVal, NoneVal, NoneVal>>,
      <<CGRP \o <<" ">> \o BGRP, NoneVal, NoneVal, NoneVal, NoneVal>>,
      <<JANGBI \o CGRP, NoneVal, NoneVal, NoneVal, NoneVal>>,
      <<HYEOLAEK \o SOBYEON \o SOHWAGI, NoneVal, NoneVal, NoneVal, NoneVal>>,
      <<<<"hyeol", " ", "aek", "/", "so", " ", "byeon">>, NoneVal, NoneVal, NoneVal, NoneVal>>,
      <<HYEOLAEK, NoneVal, NoneVal, NoneVal, NoneVal>>,
      \* data rows without a label
      <<NoneVal, ItemName, NoneVal, NoneVal, NoneVal>>,
      <<NoneVal, ItemName, NoneVal, S3, NoneVal>>,
      <<NoneVal, ItemName, NoneVal, S5, NoneVal>>,
      <<NoneVal, ItemName, NoneVal, OMark \o <<" ">>, NoneVal>>,
      <<NoneVal, ItemName, NoneVal, MISEL, NoneVal>>,
      <<NoneVal, ItemName, NoneVal, NoneVal, S5>>,
      <<NoneVal, ItemName, NoneVal, S3, MISEL>>,
      \* data rows with a label
      <<<<" ", "A", " ", "geu", "rup">>, ItemName, ItemDesc, S3, NoneVal>>,
      <<JANGBI, ItemName, NoneVal, OMark, NoneVal>>,
      <<EtcLabel, ItemName, NoneVal, OMark, NoneVal>>,
      \* sub-header rows
      <<NoneVal, GEOMJINHANGMOK, NoneVal, S3, NoneVal>>,
      <<BGRP, NAEYONG, NoneVal, NoneVal, NoneVal>> }

\* the rows a sheet of w columns can hold
Rows(w) == { SubSeq(r, 1, w) : r \in Rows5 }

----------------------------------------------------------------------------
(* parse_data_from_excel *)

Groups == {"A", "B", "C"}
BucketKeys == {"A", "B", "C", "EQUIP", "COMMON_BLOOD"}

\* Python: plan.get(key, default)
PlanGet(plan, key, default) == IF plan[key] = Absent THEN default ELSE plan[key]

\* a summary entry whose missing rules read as the empty text
SummaryEntryEmptyDefault(p) ==
    [name |-> p.name,
     a |-> PlanGet(p, "a_rule", EmptyStr),
     b |-> PlanGet(p, "b_rule", EmptyStr),
     c |-> PlanGet(p, "c_rule", EmptyStr)]

\* lines 96-102
SummaryEntry(p) ==
    [name |-> p.name,
     a |-> PlanGet(p, "a_rule", DASH),
     b |-> PlanGet(p, "b_rule", DASH),
     c |-> PlanGet(p, "c_rule", DASH)]

\* the marker chain with the blood/urine test ahead of the equipment test
NextCatCommonFirst(cat, col0_clean) ==
    IF Contains(AGRP, col0_clean) THEN "A"
    ELSE IF Contains(BGRP, col0_clean) THEN "B"
    ELSE IF Contains(CGRP, col0_clean) THEN "C"
    ELSE IF Contains(HYEOLAEK, col0_clean) /\ Contains(SOBYEON, col0_clean) THEN "COMMON"
    ELSE IF Contains(JANGBI, col0_clean) \/ Contains(SOHWAGI, col0_clean) THEN "EQUIP"
    ELSE cat

\* lines 113-117: the marker chain on col0_clean
NextCat(cat, col0_clean) ==
    IF Contains(AGRP, col0_clean) THEN "A"
    ELSE IF Contains(BGRP, col0_clean) THEN "B"
    ELSE IF Contains(CGRP, col0_clean) THEN "C"
    ELSE IF Contains(JANGBI, col0_clean) \/ Contains(SOHWAGI, col0_clean) THEN "EQUIP"
    ELSE IF Contains(HYEOLAEK, col0_clean) /\ Contains(SOBYEON, col0_clean) THEN "COMMON"
    ELSE cat

\* lines 127-130: the raw value of a plan's cell
RawVal(plan, r) ==
    IF plan.col_idx - 1 < Len(r) THEN CellText(r[plan.col_idx]) ELSE EmptyStr

\* carry-forward that keeps the cache when a concrete value is met
CarryForwardNoClear(val, cached) ==
    IF Contains(SEL, val) THEN [val |-> val, cache |-> val]
    ELSE IF val = EmptyStr /\ Truthy(cached) THEN [val |-> cached, cache |-> cached]
    ELSE [val |-> val, cache |-> cached]

\* carry-forward that does not cache a cell containing "mi seon taek"
CarryForwardNotNegated(val, cached) ==
    IF Contains(SEL, val) /\ ~Contains(MISEL, val) THEN [val |-> val, cache |-> val]
    ELSE IF val = EmptyStr /\ Truthy(cached) THEN [val |-> cached, cache |-> cached]
    ELSE IF val # EmptyStr THEN [val |-> val, cache |-> NoneVal]
    ELSE [val |-> val, cache |-> cached]

\* lines 134-136: carry-forward; cached is the cache slot of the plan and category
CarryForward(val, cached) ==
    IF Contains(SEL, val) THEN [val |-> val, cache |-> val]
    ELSE IF val = EmptyStr /\ Truthy(cached) THEN [val |-> cached, cache |-> cached]
    ELSE IF val # EmptyStr THEN [val |-> val, cache |-> NoneVal]
    ELSE [val |-> val, cache |-> cached]

\* lines 140-142: the rule of the current group
GroupRule(plan, cat) ==
    IF cat = "A" THEN PlanGet(plan, "a_rule", EmptyStr)
    ELSE IF cat = "B" THEN PlanGet(plan, "b_rule", EmptyStr)
    ELSE IF cat = "C" THEN PlanGet(plan, "c_rule", EmptyStr)
    ELSE EmptyStr

\* override that writes the rule text "-" into the cell
OverrideDashAsText(val, rule) ==
    IF Contains(SEL, val) /\ Truthy(rule) THEN rule ELSE val

\* override that leaves the cell alone
OverrideNever(val, rule) == val

\* lines 138-144: override of a value that contains "seon taek"
Override(val, rule) ==
    IF Contains(SEL, val) /\ Truthy(rule)
    THEN (IF rule = DASH THEN EmptyStr ELSE rule)
    ELSE val

\* line 146
Negate(val) == IF Contains(MISEL, val) THEN EmptyStr ELSE val

\* the plan loop body with every category but A and B handled as C
PlanValueElseC(plan, r, cat, slots) ==
    LET g  == IF cat \in {"A", "B"} THEN cat ELSE "C"
        cf == CarryForward(RawVal(plan, r), slots[g])
    IN  [val |-> Negate(Override(cf.val, GroupRule(plan, g))),
         cache |-> [slots EXCEPT ![g] = cf.cache]]

\* the plan loop body with the negation step ahead of the override
PlanValueNegateFirst(plan, r, cat, slots) ==
    IF cat \in Groups
    THEN LET cf == CarryForward(RawVal(plan, r), slots[cat])
         IN  [val |-> Override(Negate(cf.val), GroupRule(plan, cat)),
              cache |-> [slots EXCEPT ![cat] = cf.cache]]
    ELSE [val |-> Negate(RawVal(plan, r)), cache |-> slots]

\* lines 126-147: one iteration of the plan loop; result [val, cache]
PlanValue(plan, r, cat, slots) ==
    IF cat \in Groups
    THEN LET cf == CarryForward(RawVal(plan, r), slots[cat])
         IN  [val |-> Negate(Override(cf.val, GroupRule(plan, cat))),
              cache |-> [slots EXCEPT ![cat] = cf.cache]]
    ELSE [val |-> Negate(RawVal(plan, r)), cache |-> slots]

RECURSIVE PlanLoop(_, _, _, _, _)
\* lines 125-147: the plan loop from index idx on; st = [row_vals, cache]
PlanLoop(pl, idx, r, cat, st) ==
    IF idx > Len(pl) THEN st
    ELSE LET pv == PlanValue(pl[idx], r, cat, st.cache[idx])
         IN  PlanLoop(pl, idx + 1, r, cat,
                      [row_vals |-> Append(st.row_vals, pv.val),
                       cache |-> [st.cache EXCEPT ![idx] = pv.cache]])

RECURSIVE PlanLoopSkipBeyond(_, _, _, _, _)
\* the plan loop with the append moved under the column guard of line 129
PlanLoopSkipBeyond(pl, idx, r, cat, st) ==
    IF idx > Len(pl) THEN st
    ELSE LET pv == PlanValue(pl[idx], r, cat, st.cache[idx])
         IN  PlanLoopSkipBeyond(pl, idx + 1, r, cat,
                      [row_vals |-> IF pl[idx].col_idx - 1 < Len(r)
                                    THEN Append(st.row_vals, pv.val) ELSE st.row_vals,
                       cache |-> [st.cache EXCEPT ![idx] = pv.cache]])

RowValsSkipBeyond(pl, r, cat, cache) ==
    PlanLoopSkipBeyond(pl, 1, r, cat, [row_vals |-> <<>>, cache |-> cache])

\* lines 125-147: row_vals and the caches after the plan loop
RowVals(pl, r, cat, cache) ==
    PlanLoop(pl, 1, r, cat, [row_vals |-> <<>>, cache |-> cache])

\* a bucket choice without the EQUIP branch
BucketOfNoEquip(cat) ==
    IF cat \in {"A", "B", "C"} THEN cat
    ELSE IF cat = "COMMON" THEN "COMMON_BLOOD"
    ELSE "NONE"

\* a bucket choice that ends in `else` instead of a last `elif`
BucketOfElseCommon(cat) ==
    IF cat \in {"A", "B", "C", "EQUIP"} THEN cat ELSE "COMMON_BLOOD"

\* lines 151-155
BucketOf(cat) ==
    IF cat \in {"A", "B", "C", "EQUIP"} THEN cat
    ELSE IF cat = "COMMON" THEN "COMMON_BLOOD"
    ELSE "NONE"

EmptyBuckets == [k \in BucketKeys |-> <<>>]
TableKeys == {"A", "B", "C", "EQUIP"}
NoOutput == [k \in TableKeys |-> <<>>]

\* the header_row argument: a row of the sheet, a row past its last row, or None
InRange == <<"in_range">>
OutOfRange == <<"out_of_range">>
HeaderRowArgs == {InRange, OutOfRange, NoneVal}

\* a category kept from the call before
StaleCat == current_main_cat

\* line 105: the category a call starts with
StartCat == ""

\* line 104: the cache a call starts with
NewCache(pl) == [i \in 1..Len(pl) |-> [g \in Groups |-> NoneVal]]

\* lines 88-107: the call reads the plan list and sets up its local state;
\* header_row + 1 (line 107) raises TypeError when header_row is None
ParseSetup(pl, w, hr) ==
    /\ pc = "idle"
    /\ plans' = pl
    /\ width' = w
    /\ header_row' = hr
    /\ summary_info' = [i \in 1..Len(pl) |-> SummaryEntry(pl[i])]
    /\ fill_cache' = NewCache(pl)
    /\ parsed_data' = EmptyBuckets
    /\ current_main_cat' = StartCat
    /\ nrows' = 0
    /\ row' = <<>>
    /\ sheet' = <<>>
    /\ pc' = IF hr = NoneVal THEN "raised" ELSE "rows"
    /\ err' = IF hr = NoneVal THEN "TypeError" ELSE ""
    /\ UNCHANGED <<earlier, rendervars, loadvars>>

ParseCall == \E pl \in PlanLists, w \in Widths, hr \in HeaderRowArgs : ParseSetup(pl, w, hr)

\* line 90: openpyxl.load_workbook raises; no handler, the exception leaves the call
ParseOpenFails ==
    /\ pc = "idle"
    /\ pc' = "raised"
    /\ err' = "load_workbook"
    /\ UNCHANGED <<plans, width, nrows, row, current_main_cat, fill_cache,
                   parsed_data, summary_info, header_row>>
    /\ UNCHANGED <<rendervars, callvars, loadvars>>

\* the row loop body with the sub-header test ahead of the marker chain
ParseStepSkipFirst(r) ==
    /\ pc = "rows"
    /\ header_row = InRange
    /\ row' = r
    /\ nrows' = nrows + 1
    /\ IF Len(r) < 2 \/ CellText(r[2]) = EmptyStr
          \/ CellText(r[2]) \in {GEOMJINHANGMOK, NAEYONG}
       THEN UNCHANGED <<pc, err, current_main_cat, fill_cache, parsed_data>>
       ELSE LET col0 == CellText(r[1])
                cat  == NextCat(current_main_cat, RemoveSpaces(col0))
            IN  /\ current_main_cat' = cat
                /\ IF Len(r) < 3
                   THEN /\ pc' = "raised"
                        /\ err' = "IndexError"
                        /\ UNCHANGED <<fill_cache, parsed_data>>
                   ELSE LET rv == RowVals(plans, r, cat, fill_cache)
                            entry == [category |-> IF cat = "EQUIP" /\ col0 # EmptyStr
                                                   THEN col0 ELSE EmptyStr,
                                      name |-> CellText(r[2]),
                                      desc |-> CellText(r[3]),
                                      values |-> rv.row_vals]
                        IN  /\ fill_cache' = rv.cache
                            /\ parsed_data' =
                                 IF BucketOf(cat) \in BucketKeys
                                 THEN [parsed_data EXCEPT
                                         ![BucketOf(cat)] = Append(@, entry)]
                                 ELSE parsed_data
                            /\ UNCHANGED <<pc, err>>
    /\ UNCHANGED <<plans, width, summary_info, header_row>>
    /\ UNCHANGED <<earlier, rendervars, loadvars>>

\* lines 107-155: one iteration of the row loop, on row r
ParseStep(r) ==
    /\ pc = "rows"
    /\ header_row = InRange
    /\ row' = r
    /\ nrows' = nrows + 1
    /\ IF Len(r) < 2
       THEN UNCHANGED <<pc, err, current_main_cat, fill_cache, parsed_data>>
       ELSE LET col0 == CellText(r[1])
                col1 == CellText(r[2])
                cat  == NextCat(current_main_cat, RemoveSpaces(col0))
            IN  /\ current_main_cat' = cat
                /\ IF col1 = EmptyStr \/ col1 \in {GEOMJINHANGMOK, NAEYONG}
                   THEN UNCHANGED <<pc, err, fill_cache, parsed_data>>
                   ELSE IF Len(r) < 3
                   THEN \* row[2] raises IndexError
                        /\ pc' = "raised"
                        /\ err' = "IndexError"
                        /\ UNCHANGED <<fill_cache, parsed_data>>
                   ELSE LET rv == RowVals(plans, r, cat, fill_cache)
                            entry == [category |-> IF cat = "EQUIP" /\ col0 # EmptyStr
                                                   THEN col0 ELSE EmptyStr,
                                      name |-> col1,
                                      desc |-> CellText(r[3]),
                                      values |-> rv.row_vals]
                        IN  /\ fill_cache' = rv.cache
                            /\ parsed_data' =
                                 IF BucketOf(cat) \in BucketKeys
                                 THEN [parsed_data EXCEPT
                                         ![BucketOf(cat)] = Append(@, entry)]
                                 ELSE parsed_data
                            /\ UNCHANGED <<pc, err>>
    /\ UNCHANGED <<plans, width, summary_info, header_row>>
    /\ UNCHANGED <<earlier, rendervars, loadvars>>

ParseRow ==
    /\ nrows < MaxRows
    /\ \E r \in Rows(width) : ParseStep(r)
    /\ UNCHANGED sheet

\* lines 157-158: the sheet is exhausted; close and return
ParseReturn ==
    /\ pc = "rows"
    /\ pc' = "done"
    /\ UNCHANGED <<plans, width, nrows, row, current_main_cat, fill_cache,
                   parsed_data, summary_info, header_row, err>>
    /\ UNCHANGED <<rendervars, callvars, loadvars>>

\* no finished call is kept
NoCall ==
    [plans |-> <<>>, width |-> 0, header_row |-> InRange, sheet |-> <<>>,
     pc |-> "none", err |-> "", parsed_data |-> EmptyBuckets, summary_info |-> <<>>]

\* no scan made / no detail sheet written
NoScan == [col_idx |-> 0, start_row |-> 0, counts |-> [a |-> 0, b |-> 0, c |-> 0]]
NoRows == [summary_last |-> 0, breaks |-> <<>>,
           tables |-> [k \in TableKeys |-> [title |-> 0, last |-> 0]]]

Init ==
    /\ pc = "idle"
    /\ plans = <<>>
    /\ width = 0
    /\ nrows = 0
    /\ row = <<>>
    /\ current_main_cat = ""
    /\ fill_cache = <<>>
    /\ parsed_data = EmptyBuckets
    /\ summary_info = <<>>
    /\ html = NoOutput
    /\ xl = NoOutput
    /\ header_row = InRange
    /\ err = ""
    /\ sheet = <<>>
    /\ earlier = NoCall
    /\ wb = "none"
    /\ lsheet = <<>>
    /\ header_row_idx = NoneVal
    /\ price_cols = <<>>
    /\ ret = NoneVal
    /\ scan = NoScan
    /\ xlrows = NoRows
    /\ span_grid = <<>>
    /\ hmaps = <<>>
    /\ xmerges = <<>>

Next == ParseCall \/ ParseOpenFails \/ ParseRow \/ ParseReturn

Spec == Init /\ [][Next]_vars

----------------------------------------------------------------------------
(* The renderers' value normalizers *)

RECURSIVE SpanOf(_, _)
\* length of the longest prefix of s whose characters are all in set
SpanOf(s, set) == IF s # <<>> /\ Head(s) \in set THEN 1 + SpanOf(Tail(s), set) ELSE 0

Drop(s, n) == SubSeq(s, n + 1, Len(s))
Take(s, n) == SubSeq(s, 1, n)
StartsWith(s, pre) == Len(s) >= Len(pre) /\ Take(s, Len(pre)) = pre

RECURSIVE ReSubSelInsertOnly(_)
\* a substitution that only inserts a space where there is none: (seon taek)(\d+)
ReSubSelInsertOnly(s) ==
    IF s = <<>> THEN <<>>
    ELSE IF StartsWith(s, SEL) /\ SpanOf(Drop(s, Len(SEL)), Digits) >= 1
         THEN SEL \o <<" ">> \o ReSubSelInsertOnly(Drop(s, Len(SEL)))
         ELSE <<Head(s)>> \o ReSubSelInsertOnly(Tail(s))

RECURSIVE ReSubSel(_)
\* Python: re.sub(r'(seon taek)\s*(\d+)', r'\1 \2', s), leftmost non-overlapping matches
ReSubSel(s) ==
    IF s = <<>> THEN <<>>
    ELSE IF StartsWith(s, SEL)
         THEN LET rest   == Drop(s, Len(SEL))
                  ws     == SpanOf(rest, Whitespace)
                  after  == Drop(rest, ws)
                  nd     == SpanOf(after, Digits)
              IN  IF nd >= 1
                  THEN SEL \o <<" ">> \o Take(after, nd) \o ReSubSel(Drop(after, nd))
                  ELSE <<Head(s)>> \o ReSubSel(Tail(s))
         ELSE <<Head(s)>> \o ReSubSel(Tail(s))

\* render_html_string.normalize_text
normalize_text(text) == ReSubSel(text)

\* render_html_string.get_val_display
get_val_display(val) ==
    IF val = EmptyStr \/ val \in {<<"X">>, <<"x">>, DASH, MISEL} THEN EmptyStr
    ELSE IF val \in {<<"O">>, <<"o">>, <<"CIRCLE">>} \/ Contains(GIBON, val) THEN <<"O">>
    ELSE IF Contains(SEL, val) THEN normalize_text(val)
    ELSE val

\* generate_excel_bytes.write_section.norm
norm(v) ==
    IF v = EmptyStr \/ v \in {DASH, MISEL, <<"X">>} THEN EmptyStr
    ELSE IF Contains(SEL, v) THEN ReSubSel(v)
    ELSE IF Contains(<<"O">>, v) \/ Contains(GIBON, v) THEN <<"O">>
    ELSE v

----------------------------------------------------------------------------
(* The vertical merge loops *)

RECURSIVE Repeat(_, _)
\* Python: [x] * n
Repeat(x, n) == IF n = 0 THEN <<>> ELSE Append(Repeat(x, n - 1), x)

RECURSIVE HtmlGridRow(_)
\* line 181: [get_val_display(v) for v in item['values']]
HtmlGridRow(values) ==
    IF values = <<>> THEN <<>>
    ELSE <<get_val_display(Head(values))>> \o HtmlGridRow(Tail(values))

RECURSIVE HtmlGrid(_)
\* lines 179-182
HtmlGrid(item_list) ==
    IF item_list = <<>> THEN <<>>
    ELSE <<HtmlGridRow(Head(item_list).values)>> \o HtmlGrid(Tail(item_list))

RECURSIVE XlGridRow(_)
\* line 711: [norm(v) for v in item['values']]
XlGridRow(values) ==
    IF values = <<>> THEN <<>>
    ELSE <<norm(Head(values))>> \o XlGridRow(Tail(values))

RECURSIVE XlGrid(_)
\* lines 709-712
XlGrid(items) ==
    IF items = <<>> THEN <<>>
    ELSE <<XlGridRow(Head(items).values)>> \o XlGrid(Tail(items))

RECURSIVE Column(_, _)
\* column c (1-based) of a grid, top to bottom
Column(grid, c) ==
    IF grid = <<>> THEN <<>> ELSE <<Head(grid)[c]>> \o Column(Tail(grid), c)

RECURSIVE HtmlInnerNoBreak(_, _, _, _)
\* the inner loop without its `else: break`: every later row holding val is absorbed
HtmlInnerNoBreak(col, k, val, st) ==
    IF k > Len(col) THEN st
    ELSE HtmlInnerNoBreak(col, k + 1, val,
            IF col[k] = val
            THEN [span |-> st.span + 1, skip |-> [st.skip EXCEPT ![k] = TRUE]]
            ELSE st)

RECURSIVE HtmlInnerNoSkipMark(_, _, _, _)
\* the inner loop counting the span without marking the rows below as skipped
HtmlInnerNoSkipMark(col, k, val, st) ==
    IF k <= Len(col) /\ col[k] = val
    THEN HtmlInnerNoSkipMark(col, k + 1, val, [span |-> st.span + 1, skip |-> st.skip])
    ELSE st

RECURSIVE HtmlInner(_, _, _, _)
\* lines 196-199: k is the next row below; st = [span, skip]
HtmlInner(col, k, val, st) ==
    IF k <= Len(col) /\ col[k] = val
    THEN HtmlInner(col, k + 1, val,
                   [span |-> st.span + 1, skip |-> [st.skip EXCEPT ![k] = TRUE]])
    ELSE st

RECURSIVE HtmlColLoop(_, _, _)
\* lines 191-200 for one column: st = [rowspan, skip], r the next row (1-based)
HtmlColLoop(col, r, st) ==
    IF r > Len(col) THEN st
    ELSE IF st.skip[r] THEN HtmlColLoop(col, r + 1, st)
    ELSE IF col[r] # EmptyStr
         THEN LET inner == HtmlInner(col, r + 1, col[r], [span |-> 1, skip |-> st.skip])
              IN  HtmlColLoop(col, r + 1,
                     [rowspan |-> [st.rowspan EXCEPT ![r] = inner.span],
                      skip |-> inner.skip])
         ELSE HtmlColLoop(col, r + 1, st)

\* lines 186-200: rowspan_map and skip_map of one column
HtmlColMaps(col, merge) ==
    LET st0 == [rowspan |-> Repeat(1, Len(col)), skip |-> Repeat(FALSE, Len(col))]
    IN  IF merge THEN HtmlColLoop(col, 1, st0) ELSE st0

\* lines 221-223
CellClass(val) ==
    IF val = <<"O">> THEN "text-center text-bold"
    ELSE IF Contains(SEL, val) THEN "text-center text-navy text-bold"
    ELSE "text-center"

RECURSIVE HtmlRowCells(_, _, _, _)
\* lines 217-225: the value cells of row r from column c on
HtmlRowCells(grid, maps, r, c) ==
    IF c > Len(maps) THEN <<>>
    ELSE IF maps[c].skip[r] THEN HtmlRowCells(grid, maps, r, c + 1)
    ELSE << [col |-> c, rowspan |-> maps[c].rowspan[r], val |-> grid[r][c],
             cls |-> CellClass(grid[r][c])] >> \o HtmlRowCells(grid, maps, r, c + 1)

RECURSIVE HtmlRows(_, _, _)
\* lines 203-227: the rows from r on
HtmlRows(grid, maps, r) ==
    IF r > Len(grid) THEN <<>>
    ELSE <<HtmlRowCells(grid, maps, r, 1)>> \o HtmlRows(grid, maps, r + 1)

RECURSIVE HtmlMaps(_, _, _, _)
\* lines 190-200: the maps of the columns c..cols_cnt
HtmlMaps(grid, c, cols_cnt, merge) ==
    IF c > cols_cnt THEN <<>>
    ELSE <<HtmlColMaps(Column(grid, c), merge)>> \o HtmlMaps(grid, c + 1, cols_cnt, merge)

\* render_table_html: the value cells emitted per row, in column order
render_table_html(item_list, cols_cnt, merge) ==
    LET grid == HtmlGrid(item_list)
    IN  HtmlRows(grid, HtmlMaps(grid, 1, cols_cnt, merge), 1)

RECURSIVE XlInner(_, _, _)
\* lines 735-737: the rows from k on holding val, up to the first other
XlInner(col, k, val) ==
    IF k <= Len(col) /\ col[k] = val THEN 1 + XlInner(col, k + 1, val) ELSE 0

RECURSIVE XlColLoopStepOne(_, _, _)
\* the while loop advancing by one row instead of by the span
XlColLoopStepOne(col, r, merged) ==
    IF r > Len(col) THEN merged
    ELSE IF col[r] # EmptyStr
         THEN LET span == 1 + XlInner(col, r + 1, col[r])
              IN  XlColLoopStepOne(col, r + 1,
                     IF span > 1
                     THEN Append(merged, [first |-> r, last |-> r + span - 1])
                     ELSE merged)
         ELSE XlColLoopStepOne(col, r + 1, merged)

RECURSIVE XlColLoop(_, _, _)
\* lines 730-743 for one column: the merged ranges, r the next row (1-based)
XlColLoop(col, r, merged) ==
    IF r > Len(col) THEN merged
    ELSE IF col[r] # EmptyStr
         THEN LET span == 1 + XlInner(col, r + 1, col[r])
              IN  XlColLoop(col, r + span,
                     IF span > 1
                     THEN Append(merged, [first |-> r, last |-> r + span - 1])
                     ELSE merged)
         ELSE XlColLoop(col, r + 1, merged)

RECURSIVE XlMerges(_, _, _, _)
\* lines 728-743: the merged ranges of the columns c..cols_cnt
XlMerges(grid, c, cols_cnt, merge) ==
    IF c > cols_cnt THEN <<>>
    ELSE << IF merge THEN XlColLoop(Column(grid, c), 1, <<>>) ELSE <<>> >>
         \o XlMerges(grid, c + 1, cols_cnt, merge)

\* write_section: the value cells written and the ranges merged per column
write_section(items, cols_cnt, merge) ==
    LET grid == XlGrid(items)
    IN  [grid |-> grid, merged |-> XlMerges(grid, 1, cols_cnt, merge)]

----------------------------------------------------------------------------
(* The price row and the four detail tables of the two renderers *)

RECURSIVE FirstDigitRun(_)
\* Python: re.findall(r'\d+', s)[0], or the empty sequence when there is no digit
FirstDigitRun(s) ==
    IF s = <<>> THEN <<>>
    ELSE IF Head(s) \in Digits THEN Take(s, SpanOf(s, Digits))
    ELSE FirstDigitRun(Tail(s))

RECURSIVE Commas(_)
\* Python: f"{val:,}" on the decimal digits of val
Commas(ds) ==
    IF Len(ds) <= 3 THEN ds
    ELSE Commas(Take(ds, Len(ds) - 3)) \o <<",">> \o Drop(ds, Len(ds) - 3)

\* lines 457-465 / 755-763: the price text of one plan (plans carry no price_txt here)
PriceVal(p) ==
    LET nums == FirstDigitRun(p.name)
        n    == Drop(nums, SpanOf(nums, {"0"}))       \* int() drops leading zeros
    IN  IF nums = <<>> THEN DASH
        ELSE IF n = <<>> THEN <<"0">>
        ELSE Commas(n \o <<"0", "0", "0", "0">>)

PriceName == <<"u", "d", "s", "g">>

\* lines 455-471 / 753-769
equip_data(data, pl) ==
    data["EQUIP"] \o data["COMMON_BLOOD"] \o
    << [category |-> EmptyStr, name |-> PriceName, desc |-> EmptyStr,
        values |-> [i \in 1..Len(pl) |-> PriceVal(pl[i])]] >>

TableItems(data, pl, k) == IF k = "EQUIP" THEN equip_data(data, pl) ELSE data[k]
TableMerge(k) == k # "EQUIP"

\* render_html_string, lines 451-473
RenderHtml ==
    /\ pc = "data"
    /\ html' = [k \in TableKeys |->
                  render_table_html(TableItems(parsed_data, plans, k), Len(plans), TableMerge(k))]
    /\ pc' = "html"
    /\ UNCHANGED <<plans, width, nrows, row, current_main_cat, fill_cache,
                   parsed_data, summary_info, xl, header_row, err>>
    /\ UNCHANGED <<xlrows, span_grid, hmaps, xmerges, callvars, loadvars>>

LayoutStart == 6        \* line 586: current_row = 6

\* lines 590-682: current_row after the guide box, the common box, the three
\* group boxes and the summary table with its three rows
SummaryEnd ==
    LET guide   == LayoutStart + 1 + 8              \* lines 590, 608
        common  == guide + 1 + 1 + 5                \* lines 612, 624, 633
        boxes   == common + 4 + 4 + 4 + 1           \* lines 651-656
        header  == boxes + 1 + 1                    \* lines 660, 667
    IN  header + 3                                  \* line 677, three times

\* a section whose item loop does not advance current_row
SectionRowsNoAdvance(cur, items) ==
    IF items = <<>> THEN [title |-> 0, last |-> 0, next |-> cur]
    ELSE [title |-> cur, last |-> cur + 1 + Len(items), next |-> cur + 2 + 2]

\* lines 688-744: the rows of one write_section call that starts at current_row = cur:
\* the title row, the last item row and current_row afterwards (0: nothing written)
SectionRows(cur, items) ==
    IF items = <<>> THEN [title |-> 0, last |-> 0, next |-> cur]
    ELSE [title |-> cur, last |-> cur + 1 + Len(items), next |-> cur + 2 + Len(items) + 2]

\* lines 682-771: the row breaks and the rows of the four detail tables
DetailRows(data, pl) ==
    LET break1 == SummaryEnd + 1                                    \* lines 682-684
        secA == SectionRows(break1 + 1, TableItems(data, pl, "A"))  \* lines 685, 746
        secB == SectionRows(secA.next, TableItems(data, pl, "B"))
        secC == SectionRows(secB.next, TableItems(data, pl, "C"))
        break2 == secC.next                                         \* line 750
        secE == SectionRows(break2 + 1, TableItems(data, pl, "EQUIP"))
        rows(sec) == [title |-> sec.title, last |-> sec.last]
    IN  [summary_last |-> SummaryEnd - 1,
         breaks |-> <<break1, break2>>,
         tables |-> [k \in TableKeys |->
                       IF k = "A" THEN rows(secA) ELSE IF k = "B" THEN rows(secB)
                       ELSE IF k = "C" THEN rows(secC) ELSE rows(secE)]]

\* generate_excel_bytes, lines 746-771
GenerateExcel ==
    /\ pc = "html"
    /\ xlrows' = DetailRows(parsed_data, plans)
    /\ xl' = [k \in TableKeys |->
                write_section(TableItems(parsed_data, plans, k), Len(plans), TableMerge(k))]
    /\ pc' = "excel"
    /\ UNCHANGED <<plans, width, nrows, row, current_main_cat, fill_cache,
                   parsed_data, summary_info, html, header_row, err>>
    /\ UNCHANGED <<span_grid, hmaps, xmerges, callvars, loadvars>>

----------------------------------------------------------------------------
(* Inputs of the renderers: any plan list and any item values *)

RenderPlanLists ==
    { <<>>,
      <<MkPlan("1", 4, Absent, Absent, Absent)>>,
      <<MkPlan("25", 4, S3, DASH, DASH), MkPlan("x", 5, DASH, DASH, DASH)>> }

SEL3 == SEL \o <<"3">>
SELWide3 == SEL \o <<" ", "TAB", "3">>

RenderVals ==
    { EmptyStr, <<"X">>, <<"x">>, DASH, MISEL, <<"O">>, <<"o">>, <<"CIRCLE">>, GIBON,
      <<"O", "K">>, SEL3, S3, SELWide3, GIBON \o <<" ">> \o SEL \o <<"5">>, <<"N">> }

\* the value rows an item of bucket k can hold for n plans
RenderRows(k, n) ==
    IF n = 0 THEN { <<>> }
    ELSE IF n = 1
    THEN (IF k = "A" THEN { <<v>> : v \in RenderVals }
          ELSE IF k = "B" THEN { <<S3>>, <<(<<"x">>)>> }
          ELSE { <<(<<"x">>)>> })
    ELSE (IF k = "A" THEN { <<v, w>> : v \in {EmptyStr, <<"x">>, SEL3, S3}, w \in {EmptyStr, S3} }
          ELSE { <<S3, S3>> })

NItems(data) ==
    Len(data["A"]) + Len(data["B"]) + Len(data["C"]) + Len(data["EQUIP"]) + Len(data["COMMON_BLOOD"])

\* the caller hands over one more item of bucket k
AddItem ==
    /\ pc = "data"
    /\ NItems(parsed_data) < MaxItems
    /\ \E k \in BucketKeys :
         \E vals \in RenderRows(k, Len(plans)) :
            parsed_data' = [parsed_data EXCEPT ![k] =
                Append(@, [category |-> EmptyStr, name |-> ItemName, desc |-> EmptyStr,
                           values |-> vals])]
    /\ UNCHANGED <<pc, plans, width, nrows, row, current_main_cat, fill_cache,
                   summary_info, html, xl, header_row, err>>
    /\ UNCHANGED <<xlrows, span_grid, hmaps, xmerges, callvars, loadvars>>

RenderInit ==
    /\ pc = "data"
    /\ plans \in RenderPlanLists
    /\ width = 0
    /\ nrows = 0
    /\ row = <<>>
    /\ current_main_cat = ""
    /\ fill_cache = <<>>
    /\ parsed_data = EmptyBuckets
    /\ summary_info = <<>>
    /\ html = NoOutput
    /\ xl = [k \in TableKeys |-> [grid |-> <<>>, merged |-> <<>>]]
    /\ header_row = InRange
    /\ err = ""
    /\ sheet = <<>>
    /\ earlier = NoCall
    /\ wb = "none"
    /\ lsheet = <<>>
    /\ header_row_idx = NoneVal
    /\ price_cols = <<>>
    /\ ret = NoneVal
    /\ scan = NoScan
    /\ xlrows = NoRows
    /\ span_grid = <<>>
    /\ hmaps = <<>>
    /\ xmerges = <<>>

RenderNext == AddItem \/ RenderHtml \/ GenerateExcel

SpecRender == RenderInit /\ [][RenderNext]_vars

----------------------------------------------------------------------------
(* Steps of the row loop, as the properties below read them *)

\* the row just read is a data row: it reaches the plan loop
IsDataRow(r) ==
    /\ Len(r) >= 3
    /\ CellText(r[2]) # EmptyStr
    /\ CellText(r[2]) \notin {GEOMJINHANGMOK, NAEYONG}

\* this step is an iteration of the row loop
RowStep == pc = "rows" /\ pc' = "rows" /\ nrows' = nrows + 1

\* this step appended an entry to bucket k
Appended(k) == RowStep /\ Len(parsed_data'[k]) = Len(parsed_data[k]) + 1

LastEntry(k) == parsed_data'[k][Len(parsed_data'[k])]

AllEntries(data) == UNION { { data[k][j] : j \in 1..Len(data[k]) } : k \in BucketKeys }

----------------------------------------------------------------------------
(* C1: every item of every bucket holds exactly one value per plan, and the   *)
(* i-th value of an appended item comes from the column, the carry-forward   *)
(* cache and the group rule of the i-th plan: it is the empty text, the text *)
(* of the cell in that plan's column, the text cached for that plan, or that *)
(* plan's rule for the current group.                                        *)

C1_ValuesPerPlan ==
    [][ /\ \A e \in AllEntries(parsed_data') : Len(e.values) = Len(plans')
        /\ \A k \in BucketKeys :
             Appended(k) =>
                \A i \in 1..Len(plans) :
                   LastEntry(k).values[i] \in
                      {EmptyStr, RawVal(plans[i], row')}
                      \cup (IF k \in Groups
                            THEN {fill_cache[i][k], GroupRule(plans[i], k)}
                            ELSE {}) ]_vars

\* two plans, the first bound to a column beyond the row width, and an item
\* whose second value is a text of the sheet
C1_Witness ==
    /\ pc = "rows"
    /\ Len(plans) = 2
    /\ plans[1].col_idx > width
    /\ \E e \in AllEntries(parsed_data) :
          /\ Len(e.values) = 2
          /\ e.values[1] = EmptyStr
          /\ e.values[2] = OMark

----------------------------------------------------------------------------
(* C2: carry-forward, per plan and per group g of A, B, C.  On a data row of *)
(* group g: a cell containing "seon taek" gives its own text and becomes the *)
(* cached text of g; a blank cell gives the cached text of g when one is     *)
(* held and the empty text otherwise, and leaves the cache alone; any other  *)
(* cell gives its own text and clears the cache of g.  The caches of the     *)
(* other groups are not touched.  The carried text is the parsed value       *)
(* whenever no override or negation applies to it (it holds no "seon taek",  *)
(* or the plan has no rule for g and the text holds no "mi seon taek").      *)

\* the text a cell yields after carry-forward, as the claim states it
C2_Carried(cell, cached) ==
    IF Contains(SEL, cell) THEN cell
    ELSE IF cell = EmptyStr THEN (IF cached # NoneVal THEN cached ELSE EmptyStr)
    ELSE cell

\* the cache slot after the cell, as the claim states it
C2_CacheAfter(cell, cached) ==
    IF Contains(SEL, cell) THEN cell
    ELSE IF cell = EmptyStr THEN cached
    ELSE NoneVal

C2_CarryForward ==
    [][ \A g \in Groups :
          Appended(g) =>
             \A i \in 1..Len(plans) :
                LET cell   == RawVal(plans[i], row')
                    cached == fill_cache[i][g]
                    cv     == C2_Carried(cell, cached)
                IN  /\ fill_cache'[i][g] = C2_CacheAfter(cell, cached)
                    /\ \A h \in Groups \ {g} : fill_cache'[i][h] = fill_cache[i][h]
                    /\ (~Contains(SEL, cv)
                        \/ (GroupRule(plans[i], g) = EmptyStr /\ ~Contains(MISEL, cv)))
                          => LastEntry(g).values[i] = cv ]_vars

\* the column ("seon taek 3", blank, "seon taek 5") of a plan without rules has been
\* parsed to ("seon taek 3", "seon taek 3", "seon taek 5")
C2_Witness ==
    /\ Len(plans) >= 1
    /\ GroupRule(plans[1], "A") = EmptyStr
    /\ Len(parsed_data["A"]) = 3
    /\ parsed_data["A"][1].values[1] = S3
    /\ parsed_data["A"][2].values[1] = S3
    /\ parsed_data["A"][3].values[1] = S5
    /\ RawVal(plans[1], row) = S5
    /\ fill_cache[1]["A"] = S5

----------------------------------------------------------------------------
(* C3: override precedence.  For a group g of A, B, C and a plan whose rule  *)
(* for g is "-": the parsed value of every cell whose text, literal or       *)
(* inherited by carry-forward, contains "seon taek" is the empty text, and   *)
(* no value of that plan in bucket g contains "seon taek".                   *)

C3_DashForcesEmpty ==
    [][ \A g \in Groups :
          \A i \in 1..Len(plans') :
             GroupRule(plans'[i], g) = DASH =>
                /\ \A j \in 1..Len(parsed_data'[g]) :
                      ~Contains(SEL, parsed_data'[g][j].values[i])
                /\ (Appended(g)
                    /\ Contains(SEL, C2_Carried(RawVal(plans[i], row'), fill_cache[i][g])))
                      => LastEntry(g).values[i] = EmptyStr ]_vars

\* a plan whose rule for A is "-" met a literal "seon taek" cell and then a blank
\* cell that inherits it, and both values are empty
C3_Witness ==
    /\ pc = "rows"
    /\ \E i \in 1..Len(plans) :
          /\ GroupRule(plans[i], "A") = DASH
          /\ Len(parsed_data["A"]) >= 2
          /\ parsed_data["A"][Len(parsed_data["A"])].values[i] = EmptyStr
          /\ current_main_cat = "A"
          /\ IsDataRow(row)
          /\ RawVal(plans[i], row) = EmptyStr
          /\ fill_cache[i]["A"] = S3

----------------------------------------------------------------------------
(* C4: override replacement in the groups A, B, C.                           *)
(* As claimed: with a rule R that is non-empty and not "-", every value that *)
(* (literally or by inheritance) contains "seon taek" becomes exactly R;     *)
(* with an empty or absent rule the sheet or inherited value is kept as is;  *)
(* a value without "seon taek" is never changed by a rule.                   *)

C4_Claimed ==
    [][ \A g \in Groups :
          Appended(g) =>
             \A i \in 1..Len(plans) :
                LET cv   == C2_Carried(RawVal(plans[i], row'), fill_cache[i][g])
                    rule == GroupRule(plans[i], g)
                    v    == LastEntry(g).values[i]
                IN  /\ (Contains(SEL, cv) /\ rule # EmptyStr /\ rule # DASH) => v = rule
                    /\ rule = EmptyStr => v = cv
                    /\ ~Contains(SEL, cv) => v = cv ]_vars

(* C4 as amended: the same, followed by the negation step: the value that    *)
(* results (R, or the kept sheet or inherited text) is replaced by the empty *)
(* text when it contains "mi seon taek".                                     *)

C4_Negated(v) == IF Contains(MISEL, v) THEN EmptyStr ELSE v

C4_OverrideThenNegate ==
    [][ \A g \in Groups :
          Appended(g) =>
             \A i \in 1..Len(plans) :
                LET cv   == C2_Carried(RawVal(plans[i], row'), fill_cache[i][g])
                    rule == GroupRule(plans[i], g)
                    v    == LastEntry(g).values[i]
                IN  /\ (Contains(SEL, cv) /\ rule # EmptyStr /\ rule # DASH)
                          => v = C4_Negated(rule)
                    /\ rule = EmptyStr => v = C4_Negated(cv)
                    /\ ~Contains(SEL, cv) => v = cv ]_vars

\* a plan with the replacement rule "seon taek 2" for B inherited a cached text on a
\* blank cell and the value is the rule; the other plan of the list kept "O"
C4_Witness ==
    /\ pc = "rows"
    /\ current_main_cat = "B"
    /\ IsDataRow(row)
    /\ \E i \in 1..Len(plans) :
          /\ GroupRule(plans[i], "B") = S2
          /\ RawVal(plans[i], row) = EmptyStr
          /\ fill_cache[i]["B"] = S5
          /\ parsed_data["B"][Len(parsed_data["B"])].values[i] = S2

----------------------------------------------------------------------------
(* What the two renderers produced, as the properties below read it *)

Rendered == pc = "excel"

\* the raw value of row r, column c of table k
RawAt(k, r, c) == TableItems(parsed_data, plans, k)[r].values[c]

NRows(k) == Len(TableItems(parsed_data, plans, k))

\* the vertical runs <<start row, length>> of column c in the markup table
HtmlRuns(rows, c) ==
    UNION { { <<r, rows[r][j].rowspan>> :
                 j \in { q \in 1..Len(rows[r]) : rows[r][q].col = c } } :
            r \in 1..Len(rows) }

\* the vertical runs <<start row, length>> of column c in the workbook table,
\* an unmerged cell counting as a run of length 1
XlRuns(t, c) ==
    LET m == t.merged[c]
        covered(r) == \E j \in 1..Len(m) : m[j].first <= r /\ r <= m[j].last
    IN  { <<m[j].first, m[j].last - m[j].first + 1>> : j \in 1..Len(m) }
        \cup { <<r, 1>> : r \in { q \in 1..Len(t.grid) : ~covered(q) } }

----------------------------------------------------------------------------
(* C5: cross-format span equality.  For the same plans and data, in each of  *)
(* the A, B and C tables and for every plan column, the vertical runs of the *)
(* markup output are exactly the vertical runs of the workbook output.       *)

C5_SameRuns ==
    Rendered =>
       \A k \in Groups : \A c \in 1..Len(plans) :
          HtmlRuns(html[k], c) = XlRuns(xl[k], c)

----------------------------------------------------------------------------
(* C6: the merge engine of render_table_html is a vertical run-length        *)
(* encoding.  In every column of the A, B and C tables, read on its display  *)
(* values alone: a row with the empty display value emits a cell of span 1;  *)
(* the first row of a maximal run of equal non-empty display values emits a  *)
(* cell whose span is the length of the run; every other row of the run      *)
(* emits no cell.                                                            *)

\* rows r..Len(col) of the column hold n equal values and then another value or the end
C6_MaximalRun(col, r, n) ==
    /\ r + n - 1 <= Len(col)
    /\ \A q \in r..(r + n - 1) : col[q] = col[r]
    /\ (r + n <= Len(col) => col[r + n] # col[r])

C6_RunLengthEncoding ==
    pc \in {"html", "excel"} =>
       \A k \in Groups : \A c \in 1..Len(plans) :
          LET col == [r \in 1..NRows(k) |-> get_val_display(RawAt(k, r, c))]
              emitted(r) == { cell \in { html[k][r][j] : j \in 1..Len(html[k][r]) } :
                                 cell.col = c }
          IN  /\ Len(html[k]) = NRows(k)
              /\ \A r \in 1..NRows(k) :
                    IF col[r] = EmptyStr
                    THEN \E cell \in emitted(r) : cell.rowspan = 1 /\ cell.val = EmptyStr
                    ELSE IF r > 1 /\ col[r - 1] = col[r]
                    THEN emitted(r) = {}
                    ELSE /\ Cardinality(emitted(r)) = 1
                         /\ \A cell \in emitted(r) :
                               /\ cell.val = col[r]
                               /\ C6_MaximalRun(col, r, cell.rowspan)

\* the column ("seon taek 3", "seon taek 3", "X") is rendered as a cell of span 2 at the
\* first row, no cell at the second and a cell of span 1 with the empty value at the third
C6_Witness ==
    /\ pc = "html"
    /\ Len(plans) = 1
    /\ Len(parsed_data["A"]) = 3
    /\ parsed_data["A"][1].values[1] = S3
    /\ parsed_data["A"][2].values[1] = S3
    /\ parsed_data["A"][3].values[1] = <<"X">>
    /\ html["A"][1][1].rowspan = 2
    /\ html["A"][2] = <<>>
    /\ html["A"][3][1].rowspan = 1
    /\ html["A"][3][1].val = EmptyStr

----------------------------------------------------------------------------
(* C7: the display-value mapping, applied by both normalizers: an empty      *)
(* value or exactly one of X, x, -, "mi seon taek" gives the empty text;     *)
(* exactly one of O, o, the circle, or a value containing "gi bon", gives    *)
(* "O" (decided before the "seon taek" case); any other value containing     *)
(* "seon taek" is passed through with its spacing normalized; every other    *)
(* value is returned unchanged.                                              *)

C7_Display(v) ==
    IF v = EmptyStr \/ v \in {<<"X">>, <<"x">>, DASH, MISEL} THEN EmptyStr
    ELSE IF v \in {<<"O">>, <<"o">>, <<"CIRCLE">>} \/ Contains(GIBON, v) THEN <<"O">>
    ELSE IF Contains(SEL, v) THEN ReSubSel(v)
    ELSE v

C7_BothNormalizers ==
    Rendered =>
       \A k \in TableKeys : \A r \in 1..NRows(k) :
          /\ \A c \in 1..Len(plans) : xl[k].grid[r][c] = C7_Display(RawAt(k, r, c))
          /\ \A j \in 1..Len(html[k][r]) :
                html[k][r][j].val = C7_Display(RawAt(k, r, html[k][r][j].col))

----------------------------------------------------------------------------
(* C8: spacing normalization of "seon taek N".                               *)
(* As claimed: for every value in which "seon taek" is followed by zero or   *)
(* more whitespace characters and a digit run, the display value of either   *)
(* renderer has exactly one space between "seon taek" and the digits, is a   *)
(* fixed point of that renderer's normalizer, and differs from the value in nothing   *)
(* but that whitespace.                                                      *)

\* "seon taek", whitespace, digit occurs in s
C8_HasSelNum(s) ==
    \E i \in 1..Len(s) :
       /\ StartsWith(Drop(s, i - 1), SEL)
       /\ LET rest == Drop(s, i + 1)
          IN  SpanOf(Drop(rest, SpanOf(rest, Whitespace)), Digits) >= 1

\* wherever "seon taek", whitespace, digit occurs in d, the whitespace is one space
C8_OneSpace(d) ==
    \A i \in 1..Len(d) :
       (StartsWith(Drop(d, i - 1), SEL)
        /\ LET rest == Drop(d, i + 1)
           IN  SpanOf(Drop(rest, SpanOf(rest, Whitespace)), Digits) >= 1)
         => (d[i + 2] = " " /\ d[i + 3] \in Digits)

C8_NoWhitespace(s) == SelectSeq(s, LAMBDA ch : ch \notin Whitespace)

\* d is the value v with its "seon taek N" spacing normalized
C8_Normalized(v, d) ==
    /\ C8_HasSelNum(d)
    /\ C8_OneSpace(d)
    /\ C8_NoWhitespace(d) = C8_NoWhitespace(v)
    /\ Len(d) <= Len(v) + 1
    /\ (v \in {SEL3, S3, SELWide3} => d = S3)

C8_Claimed ==
    Rendered =>
       \A k \in TableKeys : \A r \in 1..NRows(k) :
          /\ \A c \in 1..Len(plans) :
                C8_HasSelNum(RawAt(k, r, c)) =>
                   /\ C8_Normalized(RawAt(k, r, c), xl[k].grid[r][c])
                   /\ norm(xl[k].grid[r][c]) = xl[k].grid[r][c]
          /\ \A j \in 1..Len(html[k][r]) :
                C8_HasSelNum(RawAt(k, r, html[k][r][j].col)) =>
                   /\ C8_Normalized(RawAt(k, r, html[k][r][j].col), html[k][r][j].val)
                   /\ get_val_display(html[k][r][j].val) = html[k][r][j].val

(* C8 as amended: the same for the workbook renderer and, in the markup      *)
(* renderer, for every such value that does not contain "gi bon"; a value    *)
(* containing "gi bon" is displayed by the markup renderer as "O".           *)

C8_SpacingNormalized ==
    Rendered =>
       \A k \in TableKeys : \A r \in 1..NRows(k) :
          /\ \A c \in 1..Len(plans) :
                C8_HasSelNum(RawAt(k, r, c)) =>
                   /\ C8_Normalized(RawAt(k, r, c), xl[k].grid[r][c])
                   /\ norm(xl[k].grid[r][c]) = xl[k].grid[r][c]
          /\ \A j \in 1..Len(html[k][r]) :
                LET v == RawAt(k, r, html[k][r][j].col)
                IN  C8_HasSelNum(v) =>
                       IF Contains(GIBON, v)
                       THEN html[k][r][j].val = <<"O">>
                       ELSE /\ C8_Normalized(v, html[k][r][j].val)
                            /\ get_val_display(html[k][r][j].val) = html[k][r][j].val

\* "seon taek3", "seon taek 3" and "seon taek", space, tab, "3" were rendered, each as
\* "seon taek 3" in both outputs
C8_Witness ==
    /\ Rendered
    /\ Len(plans) = 1
    /\ Len(parsed_data["A"]) = 2
    /\ parsed_data["A"][1].values[1] = SELWide3
    /\ parsed_data["A"][2].values[1] = SEL3
    /\ parsed_data["B"] # <<>>
    /\ parsed_data["B"][1].values[1] = S3
    /\ xl["A"].grid = << <<S3>>, <<S3>> >>
    /\ xl["B"].grid[1] = <<S3>>
    /\ html["A"][1][1].val = S3
    /\ html["A"][1][1].rowspan = 2
    /\ html["B"][1][1].val = S3

----------------------------------------------------------------------------
(* C9: sticky category tracking.                                             *)
(* As claimed: after every row the current main category is the one chosen   *)
(* by the column-1 text of that row, spaces removed, when it contains a      *)
(* marker (precedence: A group, B group, C group, equipment or digestive     *)
(* test, blood and urine together), and is unchanged when it contains none.  *)

\* the markers in their order of precedence
C9_MarkerCats == <<"A", "B", "C", "EQUIP", "COMMON">>

C9_Hit(i, text) ==
    IF i = 1 THEN Contains(AGRP, text)
    ELSE IF i = 2 THEN Contains(BGRP, text)
    ELSE IF i = 3 THEN Contains(CGRP, text)
    ELSE IF i = 4 THEN Contains(JANGBI, text) \/ Contains(SOHWAGI, text)
    ELSE Contains(HYEOLAEK, text) /\ Contains(SOBYEON, text)

\* column-1 text of a row, spaces removed
C9_Label(r) == SelectSeq(CellText(r[1]), LAMBDA ch : ch # " ")

C9_Selected(cat, r) ==
    LET hits == { i \in 1..5 : C9_Hit(i, C9_Label(r)) }
    IN  IF hits = {} THEN cat
        ELSE C9_MarkerCats[CHOOSE i \in hits : \A j \in hits : i <= j]

\* this step read one more row of the sheet
C9_ReadRow == pc = "rows" /\ nrows' = nrows + 1

C9_Claimed ==
    [][ C9_ReadRow => current_main_cat' = C9_Selected(current_main_cat, row') ]_vars

(* C9 as amended: the same for every row of at least two cells; a row of     *)
(* fewer than two cells is skipped before the marker test and leaves the     *)
(* category as it was, whatever its column-1 text.                           *)

C9_StickyCategory ==
    [][ C9_ReadRow =>
          current_main_cat' =
             IF Len(row') >= 2 THEN C9_Selected(current_main_cat, row')
             ELSE current_main_cat ]_vars

\* a label-only row selected EQUIP (of the sheet's rows only the text holding the blood,
\* urine and digestive-test markers does) and the next row, a data row labelled with no
\* marker, stayed in EQUIP
C9_Witness ==
    /\ pc = "rows"
    /\ nrows = 2
    /\ current_main_cat = "EQUIP"
    /\ CellText(row[1]) = EtcLabel
    /\ Len(parsed_data["EQUIP"]) = 1
    /\ parsed_data["EQUIP"][1].category = EtcLabel

----------------------------------------------------------------------------
(* C10: dropped rows.                                                        *)
(* As claimed: a data row (non-empty column 2) that is seen before any       *)
(* category marker, or that carries a non-empty column-1 label matching no   *)
(* recognised marker, is appended to none of the five buckets.               *)

\* a row of at least two cells whose column 2 names an item
C10_DataRow(r) ==
    /\ Len(r) >= 2
    /\ CellText(r[2]) # EmptyStr
    /\ CellText(r[2]) \notin {GEOMJINHANGMOK, NAEYONG}

C10_Unrecognised(r) ==
    /\ C9_Label(r) # EmptyStr
    /\ \A i \in 1..5 : ~C9_Hit(i, C9_Label(r))

----------------------------------------------------------------------------
(* Repeated parse calls *)

MaxCallRows == 2    \* sheet rows of one call of a sequence of calls

CallPlanLists ==
    { <<MkPlan("1", 4, Absent, Absent, Absent)>>,
      <<MkPlan("2", 4, S2, DASH, MISEL), MkPlan("3", 5, EmptyStr, S2, DASH)>> }

CallWidths == {2, 5}

CallRows5 ==
    { <<<<" ", "A", " ", "geu", "rup">>, ItemName, ItemDesc, S3, NoneVal>>,
      <<NoneVal, ItemName, NoneVal, NoneVal, NoneVal>>,
      <<JANGBI, ItemName, NoneVal, OMark, NoneVal>> }

CallRows(w) == { SubSeq(r, 1, w) : r \in CallRows5 }

\* what the caller passed to the current call and what the call gave back
CallRecord ==
    [plans |-> plans, width |-> width, header_row |-> header_row, sheet |-> sheet,
     pc |-> pc, err |-> err, parsed_data |-> parsed_data, summary_info |-> summary_info]

CallParse ==
    \E pl \in CallPlanLists, w \in CallWidths, hr \in {InRange, OutOfRange} :
        ParseSetup(pl, w, hr)

CallRow ==
    /\ nrows < MaxCallRows
    /\ \E r \in CallRows(width) :
        /\ ParseStep(r)
        /\ sheet' = Append(sheet, r)

\* the caller takes the result and is free to call again; the frame of the
\* finished call is left as it is, so anything a later call fails to set up
\* anew is what the finished call left behind
NextCall ==
    /\ pc \in {"done", "raised"}
    /\ pc' = "idle"
    /\ earlier' \in (IF earlier = NoCall THEN {NoCall, CallRecord} ELSE {earlier})
    /\ UNCHANGED <<plans, width, nrows, row, current_main_cat, fill_cache,
                   parsed_data, summary_info, header_row, err, sheet>>
    /\ UNCHANGED <<rendervars, loadvars>>

CallsNext == CallParse \/ CallRow \/ ParseReturn \/ NextCall

SpecCalls == Init /\ [][CallsNext]_vars

----------------------------------------------------------------------------
(* C11 *)

\* the current call has finished and was given what the kept call was given
C11_SameArgs ==
    /\ pc \in {"done", "raised"}
    /\ earlier # NoCall
    /\ earlier.plans = plans
    /\ earlier.width = width
    /\ earlier.header_row = header_row
    /\ earlier.sheet = sheet

C11_SameResult ==
    /\ earlier.pc = pc
    /\ earlier.err = err
    /\ earlier.parsed_data = parsed_data
    /\ earlier.summary_info = summary_info

\* a step that enters parse_data_from_excel
C11_CallStep == pc = "idle" /\ pc' # "idle"

C11_StartsEmpty ==
    /\ current_main_cat' = ""
    /\ \A i \in 1..Len(plans') : \A g \in Groups : fill_cache'[i][g] = NoneVal
    /\ Len(fill_cache') = Len(plans')
    /\ \A k \in BucketKeys : parsed_data'[k] = <<>>

\* C11: two calls of parse_data_from_excel with the same sheet, header row and
\* plan list end the same way with equal (parsed_data, summary), whatever calls
\* ran before or between them; every call starts with an empty category, an
\* empty carry-forward cache and empty buckets, and no step of a call changes
\* the plan list it was given.
C11_NoStateLeak ==
    /\ [](C11_SameArgs => C11_SameResult)
    /\ [][(C11_CallStep => C11_StartsEmpty) /\ (pc # "idle" => plans' = plans)]_vars

\* a call that inherited a cached value in its second row has finished, after
\* a kept call with the same arguments and at least one call since
C11_Witness ==
    /\ C11_SameArgs
    /\ pc = "done"
    /\ Len(sheet) = 2
    /\ Len(parsed_data["A"]) = 2
    /\ parsed_data["A"][2].values[1] # EmptyStr
    /\ sheet[2][4] = NoneVal

----------------------------------------------------------------------------
(* C20 *)

\* the rule text of a plan as the summary shows it
C20_RuleOrDash(rule) == IF rule = Absent THEN DASH ELSE rule

\* C20: from the set-up of a parse call to its return, whatever rows have been
\* read, the summary has one entry per plan, in plan order, holding the plan's
\* name and its a_rule, b_rule and c_rule texts, "-" for a rule the plan lacks.
C20_SummaryEcho ==
    pc \in {"rows", "done"} =>
        /\ Len(summary_info) = Len(plans)
        /\ \A i \in 1..Len(plans) :
            /\ summary_info[i].name = plans[i].name
            /\ summary_info[i].a = C20_RuleOrDash(plans[i].a_rule)
            /\ summary_info[i].b = C20_RuleOrDash(plans[i].b_rule)
            /\ summary_info[i].c = C20_RuleOrDash(plans[i].c_rule)
            /\ DOMAIN summary_info[i] = {"name", "a", "b", "c"}

\* a call over two plans, the first without rules, has returned with items
C20_Witness ==
    /\ pc = "done"
    /\ Len(plans) = 2
    /\ plans[1].a_rule = Absent
    /\ summary_info[1].a = DASH
    /\ summary_info[2].a = S2
    /\ Len(parsed_data["A"]) > 0

----------------------------------------------------------------------------
(* C13 *)

\* a call has ended that was given no usable header row or no readable workbook
C13_InvalidCallEnded ==
    \/ pc \in {"done", "raised"} /\ header_row \in {NoneVal, OutOfRange}
    \/ pc = "raised" /\ err = "load_workbook"

\* C13: a parse call whose header row is None or past the sheet's last row, or
\* whose workbook cannot be opened, ends by raising SourceReadError: it neither
\* raises another error nor returns.
C13_FailsWithSourceReadError ==
    C13_InvalidCallEnded => (pc = "raised" /\ err = "SourceReadError")

----------------------------------------------------------------------------
(* C14 *)

\* C14: an iteration of the row loop of a call with a valid header row never
\* raises; the item it appends for a row of fewer than three cells has an empty
\* description, and its value is empty for every plan whose column lies beyond
\* the row.
C14_TolerantParse ==
    [][(pc = "rows" /\ nrows' = nrows + 1) =>
          /\ pc' = "rows"
          /\ err' = ""
          /\ \A k \in BucketKeys :
               Len(parsed_data'[k]) = Len(parsed_data[k]) + 1 =>
                   LET item == parsed_data'[k][Len(parsed_data'[k])]
                   IN  /\ Len(row') < 3 => item.desc = EmptyStr
                       /\ \A i \in 1..Len(plans) :
                            plans[i].col_idx > Len(row') => item.values[i] = EmptyStr]_vars

----------------------------------------------------------------------------
(* load_price_options and scan_default_counts *)

MANWON == <<"man", "won">>

\* line 54
excluded == { <<"1", "0">> \o MANWON, <<"1", "5">> \o MANWON }

HeaderWindow == 20      \* line 43: iter_rows(min_row=1, max_row=20)
ScanWindow == 150       \* line 13: start_row + 150
NoHeader == 0           \* header_row_idx = None; rows are numbered from 1 and
                        \* the code tests header_row_idx by truthiness

DigitVal(d) ==
    CASE d = "0" -> 0 [] d = "1" -> 1 [] d = "2" -> 2 [] d = "3" -> 3 [] d = "4" -> 4
      [] d = "5" -> 5 [] d = "6" -> 6 [] d = "7" -> 7 [] d = "8" -> 8 [] d = "9" -> 9

RECURSIVE ToInt(_)
\* Python: int(ds) on a non-empty text of decimal digits
ToInt(ds) ==
    IF ds = <<>> THEN 0
    ELSE 10 * ToInt(SubSeq(ds, 1, Len(ds) - 1)) + DigitVal(ds[Len(ds)])

\* lines 56-63
manual_defaults ==
    (25 :> [a |-> 3, b |-> 0, c |-> 0]) @@ (30 :> [a |-> 3, b |-> 0, c |-> 0]) @@
    (35 :> [a |-> 4, b |-> 0, c |-> 0]) @@ (40 :> [a |-> 5, b |-> 0, c |-> 0]) @@
    (45 :> [a |-> 4, b |-> 1, c |-> 0]) @@ (50 :> [a |-> 5, b |-> 1, c |-> 0]) @@
    (60 :> [a |-> 3, b |-> 1, c |-> 1]) @@ (70 :> [a |-> 5, b |-> 1, c |-> 1]) @@
    (80 :> [a |-> 5, b |-> 2, c |-> 1]) @@ (90 :> [a |-> 5, b |-> 3, c |-> 1]) @@
    (100 :> [a |-> 3, b |-> 3, c |-> 2])

\* The sheet is the sequence of its non-blank rows, [r |-> row number,
\* cells |-> the values of the row], by ascending row number; every other
\* cell is blank.

\* sheet.max_row
MaxRow(sh) == IF sh = <<>> THEN 1 ELSE sh[Len(sh)].r

\* the values of row r
RowCells(sh, r) ==
    IF \E i \in 1..Len(sh) : sh[i].r = r
    THEN sh[CHOOSE i \in 1..Len(sh) : sh[i].r = r].cells
    ELSE <<>>

\* ws.cell(row=r, column=c).value
CellAt(sh, r, c) ==
    IF c <= Len(RowCells(sh, r)) THEN RowCells(sh, r)[c] ELSE NoneVal

\* line 45, for some cell of the row
HasMarker(cells) ==
    \E c \in 1..Len(cells) : Truthy(cells[c]) /\ Contains(MANWON, cells[c])

RECURSIVE HeaderScanNoBreak(_, _)
\* a header search that keeps the last marker row of the window
HeaderScanNoBreak(sh, r) ==
    IF r > HeaderWindow THEN NoHeader
    ELSE LET later == HeaderScanNoBreak(sh, r + 1)
         IN  IF later # NoHeader THEN later
             ELSE IF HasMarker(RowCells(sh, r)) THEN r ELSE NoHeader

RECURSIVE HeaderScan(_, _)
\* lines 43-48: the rows of the window in order, from row r on, up to the first hit
HeaderScan(sh, r) ==
    IF r > HeaderWindow THEN NoHeader
    ELSE IF HasMarker(RowCells(sh, r)) THEN r
    ELSE HeaderScan(sh, r + 1)

Min2(x, y) == IF x < y THEN x ELSE y

\* lines 20-32: one row of the scan
ScanRow(sh, col_idx, r, st) ==
    LET cell_group == CellText(CellAt(sh, r, 1))
        cell_val   == CellText(CellAt(sh, r, col_idx))
        cat == IF Contains(AGRP, cell_group) THEN "a"
               ELSE IF Contains(BGRP, cell_group) THEN "b"
               ELSE IF Contains(CGRP, cell_group) THEN "c"
               ELSE st.current_cat
        nums == FirstDigitRun(cell_val)
        val == ToInt(nums)
    IN  [current_cat |-> cat,
         counts |-> IF cat \in {"a", "b", "c"} /\ Contains(SEL, cell_val)
                       /\ nums # <<>> /\ val > st.counts[cat]
                    THEN [st.counts EXCEPT ![cat] = val]
                    ELSE st.counts]

RECURSIVE ScanLoop(_, _, _, _, _)
\* line 16: for r in range(r, max_scan + 1), the rows in ascending order
\* (the rows up to the middle one first, then the rows behind it)
ScanLoop(sh, col_idx, r, max_scan, st) ==
    IF r > max_scan THEN st
    ELSE IF r = max_scan THEN ScanRow(sh, col_idx, r, st)
    ELSE LET mid == (r + max_scan) \div 2
             upto == ScanLoop(sh, col_idx, r, mid, st)
         IN  \* current_cat and counts after row mid are there before row mid + 1 is read
             IF upto.current_cat \in {"", "a", "b", "c"}
             THEN ScanLoop(sh, col_idx, mid + 1, max_scan, upto)
             ELSE upto

\* lines 10-33
scan_default_counts(sh, col_idx, start_row) ==
    ScanLoop(sh, col_idx, start_row + 1, Min2(start_row + ScanWindow, MaxRow(sh)),
             [current_cat |-> "", counts |-> [a |-> 0, b |-> 0, c |-> 0]]).counts

\* lines 69-70: int() of the digits of the label, 0 when int() raises
PriceNum(val) ==
    LET ds == SelectSeq(val, LAMBDA ch : ch \in Digits)
    IN  IF ds = <<>> THEN 0 ELSE ToInt(ds)

\* line 67
IsCandidate(val) ==
    Contains(MANWON, val) /\ ~ \E e \in excluded : Contains(e, val)

\* lines 68-77: the option of the cell at 1-based position col_idx
Option(sh, header, col_idx, val) ==
    [price_txt |-> val,
     col_idx |-> col_idx,
     defaults |-> IF PriceNum(val) \in DOMAIN manual_defaults
                  THEN manual_defaults[PriceNum(val)]
                  ELSE scan_default_counts(sh, col_idx, header),
     sort_key |-> PriceNum(val)]

RECURSIVE CollectFrom(_, _, _)
\* lines 65-77: the loop over the cells of the header row, from position c on
CollectFrom(sh, header, c) ==
    LET row_cells == RowCells(sh, header)
    IN  IF c > Len(row_cells) THEN <<>>
        ELSE LET val == CellText(row_cells[c])
             IN  (IF IsCandidate(val) THEN <<Option(sh, header, c, val)>> ELSE <<>>)
                 \o CollectFrom(sh, header, c + 1)

\* insertion of x behind the entries whose key is not greater
RECURSIVE InsertByKey(_, _)
InsertByKey(sorted, x) ==
    IF sorted = <<>> THEN <<x>>
    ELSE IF sorted[Len(sorted)].sort_key <= x.sort_key THEN Append(sorted, x)
    ELSE Append(InsertByKey(SubSeq(sorted, 1, Len(sorted) - 1), x), sorted[Len(sorted)])

RECURSIVE SortByKey(_)
\* line 85: list.sort(key=sort_key), a stable sort
SortByKey(seq) ==
    IF seq = <<>> THEN <<>>
    ELSE InsertByKey(SortByKey(SubSeq(seq, 1, Len(seq) - 1)), seq[Len(seq)])

(* Inputs of load_price_options *)

MaxCols == 2        \* cells of a sheet row

L10 == <<"1", "0">> \o MANWON
L15 == <<"1", "5">> \o MANWON
L25 == <<" ", "2", "5">> \o MANWON
L55 == <<"5", "5">> \o MANWON
L110 == <<"1", "1", "0">> \o MANWON
L115 == <<"1", "1", "5">> \o MANWON
L25For2 == <<"2", "5">> \o MANWON \o <<"(", "2", "in", ")">>

HeaderCells == { NoneVal, <<"g", "b">>, L10, L15, L25, L55, L110, L115, MANWON, L25For2 }

RECURSIVE SeqsOf(_, _)
SeqsOf(S, n) ==
    IF n = 0 THEN { <<>> }
    ELSE { Append(q, x) : q \in SeqsOf(S, n - 1), x \in S }

HeaderRowsOf == UNION { SeqsOf(HeaderCells, n) : n \in 1..MaxCols }

\* a row below the header: the label of column 1 and the value of the other columns
BodyRow(c1, v, w) == <<c1>> \o Repeat(v, w - 1)

\* the rows below the header, as (label, value) pairs
Bodies ==
    { <<>>,
      << <<AGRP, S3>> >>,
      << <<AGRP, S5>>, <<NoneVal, S3>> >>,
      << <<BGRP, S3>>, <<CGRP, L25>> >>,
      << <<NoneVal, L55>> >> }

LoadTops == {1, 20, 21}

MkSheet(top, hdr, body) ==
    <<[r |-> top, cells |-> hdr]>> \o
    [i \in 1..Len(body) |->
        [r |-> top + i, cells |-> BodyRow(body[i][1], body[i][2], Len(hdr))]]

LoadSheets ==
    { MkSheet(top, hdr, body) : top \in LoadTops, hdr \in HeaderRowsOf, body \in Bodies }

\* lines 37-41
LoadOpen ==
    /\ pc = "idle"
    /\ \E sh \in LoadSheets : lsheet' = sh
    /\ wb' = "open"
    /\ header_row_idx' = NoHeader
    /\ price_cols' = <<>>
    /\ pc' = "opened"
    /\ UNCHANGED <<plans, width, nrows, row, current_main_cat, fill_cache,
                   parsed_data, summary_info, header_row, err, ret, scan>>
    /\ UNCHANGED <<rendervars, callvars>>

\* lines 43-48
LoadFindHeader ==
    /\ pc = "opened"
    /\ header_row_idx' = HeaderScan(lsheet, 1)
    /\ pc' = "header"
    /\ UNCHANGED <<plans, width, nrows, row, current_main_cat, fill_cache,
                   parsed_data, summary_info, header_row, err>>
    /\ UNCHANGED <<wb, lsheet, price_cols, ret, scan>>
    /\ UNCHANGED <<rendervars, callvars>>

\* lines 50-51
LoadNotFound ==
    /\ pc = "header"
    /\ header_row_idx = NoHeader
    /\ ret' = [header_row |-> NoHeader, options |-> <<>>]
    /\ pc' = "returned"
    /\ UNCHANGED <<plans, width, nrows, row, current_main_cat, fill_cache,
                   parsed_data, summary_info, header_row, err>>
    /\ UNCHANGED <<wb, lsheet, header_row_idx, price_cols, scan>>
    /\ UNCHANGED <<rendervars, callvars>>

\* lines 53-77
LoadCollect ==
    /\ pc = "header"
    /\ header_row_idx # NoHeader
    /\ price_cols' = CollectFrom(lsheet, header_row_idx, 1)
    /\ pc' = "collected"
    /\ UNCHANGED <<plans, width, nrows, row, current_main_cat, fill_cache,
                   parsed_data, summary_info, header_row, err>>
    /\ UNCHANGED <<wb, lsheet, header_row_idx, ret, scan>>
    /\ UNCHANGED <<rendervars, callvars>>

\* lines 84-86
LoadReturn ==
    /\ pc = "collected"
    /\ wb' = "closed"
    /\ price_cols' = SortByKey(price_cols)
    /\ ret' = [header_row |-> header_row_idx, options |-> SortByKey(price_cols)]
    /\ pc' = "returned"
    /\ UNCHANGED <<plans, width, nrows, row, current_main_cat, fill_cache,
                   parsed_data, summary_info, header_row, err>>
    /\ UNCHANGED <<lsheet, header_row_idx, scan>>
    /\ UNCHANGED <<rendervars, callvars>>

LoadNext == LoadOpen \/ LoadFindHeader \/ LoadNotFound \/ LoadCollect \/ LoadReturn

SpecLoad == Init /\ [][LoadNext]_vars

----------------------------------------------------------------------------
(* Properties of load_price_options *)

\* the rows of the search window with a cell that contains the unit marker
MarkerRows ==
    { r \in 1..HeaderWindow :
        \E c \in 1..Len(RowCells(lsheet, r)) : Contains(MANWON, RowCells(lsheet, r)[c]) }

SetMin(S) == CHOOSE x \in S : \A y \in S : x <= y

\* the call of load_price_options has ended
LoadEnded == pc \in {"returned", "raised"}

\* the leading integer of a label, as digits (empty when the label has none)
LeadingDigits(label) == FirstDigitRun(label)

(* C12 *)

\* C12: a call of load_price_options on a sheet without a unit marker in rows
\* 1..20 ends by raising TemplateFormatError, not by returning.
C12_FailsWithTemplateFormatError ==
    (LoadEnded /\ MarkerRows = {}) => (pc = "raised" /\ err = "TemplateFormatError")

(* C15 *)

\* the positions of the header-row cells that are tier candidates
C15_Candidates(cells) ==
    { c \in 1..Len(cells) :
        /\ Contains(MANWON, cells[c])
        /\ LeadingDigits(cells[c]) \notin { <<"1", "0">>, <<"1", "5">> } }

\* C15: the options returned with a header row are, one each, the cells of
\* that row that contain the unit marker and whose tier is neither 10 nor 15
\* (so 110 and 115 are options); an option holds the 1-based position and the
\* stripped text of its cell.
C15_TierCandidates ==
    (pc = "returned" /\ ret.header_row # NoHeader) =>
        LET cells == RowCells(lsheet, ret.header_row)
            opts == ret.options
        IN  /\ { opts[i].col_idx : i \in 1..Len(opts) } = C15_Candidates(cells)
            /\ Len(opts) = Cardinality(C15_Candidates(cells))
            /\ \A i \in 1..Len(opts) : opts[i].price_txt = Strip(cells[opts[i].col_idx])

(* C16 *)

C16_HasInt(opt) == LeadingDigits(opt.price_txt) # <<>>

\* C16: in the returned option list the integers of the labels ascend, and no
\* label without an integer stands before a label with one.
C16_SortedIntegersFirst ==
    pc = "returned" =>
        \A i, j \in 1..Len(ret.options) :
            i < j =>
                LET oi == ret.options[i]
                    oj == ret.options[j]
                IN  /\ (C16_HasInt(oi) /\ C16_HasInt(oj)) =>
                          ToInt(LeadingDigits(oi.price_txt)) <= ToInt(LeadingDigits(oj.price_txt))
                    /\ C16_HasInt(oj) => C16_HasInt(oi)

(* C17 *)

\* C17: an option whose label's leading integer is a key of the manual table
\* has the table's defaults, whatever follows the unit marker in the label and
\* whatever the sheet holds below; every other option has the defaults the scan
\* of its column gives.
C17_ManualOrScan ==
    pc = "returned" =>
        \A i \in 1..Len(ret.options) :
            LET opt == ret.options[i]
                tier == ToInt(LeadingDigits(opt.price_txt))
            IN  IF LeadingDigits(opt.price_txt) # <<>> /\ tier \in DOMAIN manual_defaults
                THEN opt.defaults = manual_defaults[tier]
                ELSE opt.defaults = scan_default_counts(lsheet, opt.col_idx, ret.header_row)

(* C18 *)

\* C18: whenever load_price_options has returned, the workbook it opened is
\* closed.
C18_ClosedOnReturn == pc = "returned" => wb = "closed"

(* C19 *)

\* C19: the header row found, and returned, is the smallest row of 1..20 with
\* a cell that contains the unit marker; no row beyond 20 and no row without
\* the marker is returned.
C19_FirstMarkerRow ==
    /\ pc \in {"header", "collected", "returned"} =>
          /\ MarkerRows # {} => header_row_idx = SetMin(MarkerRows)
          /\ header_row_idx <= HeaderWindow
          /\ header_row_idx # NoHeader => header_row_idx \in MarkerRows
    /\ pc = "returned" => ret.header_row = header_row_idx

\* row 20 was returned as header row although row 21 holds the marker too
C19_Witness ==
    /\ pc = "returned"
    /\ ret.header_row = HeaderWindow
    /\ HasMarker(RowCells(lsheet, HeaderWindow + 1))
    /\ Len(ret.options) > 0

----------------------------------------------------------------------------
(* C22 *)

\* the stripped text of the cell in the plan's column, empty when the cell is
\* blank or the column lies beyond the row
C22_Cell(plan, r) ==
    IF plan.col_idx <= Len(r) /\ r[plan.col_idx] # NoneVal /\ r[plan.col_idx] # EmptyStr
    THEN Strip(r[plan.col_idx])
    ELSE EmptyStr

\* C22: the item appended for a data row whose category is EQUIP or COMMON
\* holds, for each plan, the stripped text of the plan's cell, or the empty
\* text when that text contains "mi seon taek"; nothing is inherited or
\* replaced by a rule, and the row leaves every carry-forward cache as it was.
C22_ConfinedToGroups ==
    [][ \A k \in {"EQUIP", "COMMON_BLOOD"} :
          Appended(k) =>
             /\ fill_cache' = fill_cache
             /\ Len(LastEntry(k).values) = Len(plans)
             /\ \A i \in 1..Len(plans) :
                  LastEntry(k).values[i] =
                     IF Contains(MISEL, C22_Cell(plans[i], row')) THEN EmptyStr
                     ELSE C22_Cell(plans[i], row') ]_vars

\* an equipment block of three rows: a plan with an A rule kept "seon taek 3"
\* in the second row, and its blank cell of the third row stayed empty
C22_Witness ==
    /\ pc = "rows"
    /\ current_main_cat = "EQUIP"
    /\ Len(parsed_data["EQUIP"]) = 3
    /\ \E i \in 1..Len(plans) :
          /\ Truthy(GroupRule(plans[i], "A"))
          /\ parsed_data["EQUIP"][2].values[i] = S3
          /\ parsed_data["EQUIP"][3].values[i] = EmptyStr
          /\ C22_Cell(plans[i], row) = EmptyStr
          /\ fill_cache[i] = [g \in Groups |-> NoneVal]

----------------------------------------------------------------------------
(* C23 *)

\* C23: no value of any item of any bucket contains "mi seon taek".
C23_NoNegationText ==
    \A k \in BucketKeys :
       \A j \in 1..Len(parsed_data[k]) :
          \A i \in 1..Len(parsed_data[k][j].values) :
             ~Contains(MISEL, parsed_data[k][j].values[i])

\* a plan whose rule for the group is "mi seon taek" met a "mi seon taek"
\* cell and then a blank cell inheriting it; both values are empty
C23_Witness ==
    /\ pc = "rows"
    /\ IsDataRow(row)
    /\ \E g \in Groups :
          /\ current_main_cat = g
          /\ Len(parsed_data[g]) >= 2
          /\ \E i \in 1..Len(plans) :
                /\ Contains(MISEL, GroupRule(plans[i], g))
                /\ fill_cache[i][g] = MISEL
                /\ RawVal(plans[i], row) = EmptyStr
                /\ parsed_data[g][Len(parsed_data[g])].values[i] = EmptyStr
                /\ parsed_data[g][Len(parsed_data[g]) - 1].values[i] = EmptyStr

----------------------------------------------------------------------------
(* C24 *)

\* the bucket key of a category
C24_KeyOf(cat) ==
    CASE cat = "A" -> "A" [] cat = "B" -> "B" [] cat = "C" -> "C"
      [] cat = "EQUIP" -> "EQUIP" [] cat = "COMMON" -> "COMMON_BLOOD"
      [] OTHER -> "none"

\* row r is a data row: column 2 is non-empty and no sub-header label
C24_DataRow(r) ==
    /\ Len(r) >= 2
    /\ CellText(r[2]) # EmptyStr
    /\ CellText(r[2]) \notin {GEOMJINHANGMOK, NAEYONG}

\* C24: the buckets always have the five keys A, B, C, EQUIP, COMMON_BLOOD;
\* a row that is read appends one item, named after its column 2, to the end
\* of the bucket of its category when it is a data row with a category, leaving
\* the other buckets alone, and changes no bucket otherwise.
C24_BucketContents ==
    /\ [](DOMAIN parsed_data = {"A", "B", "C", "EQUIP", "COMMON_BLOOD"})
    /\ [][ RowStep =>
             LET key == C24_KeyOf(current_main_cat')
             IN  IF C24_DataRow(row') /\ key # "none"
                 THEN /\ Len(parsed_data'[key]) = Len(parsed_data[key]) + 1
                      /\ SubSeq(parsed_data'[key], 1, Len(parsed_data[key])) = parsed_data[key]
                      /\ LastEntry(key).name = CellText(row'[2])
                      /\ \A k \in BucketKeys \ {key} : parsed_data'[k] = parsed_data[k]
                 ELSE parsed_data' = parsed_data ]_vars

\* three data rows have been read into two buckets, with an empty bucket left
C24_Witness ==
    /\ pc = "done"
    /\ nrows = 3
    /\ Len(parsed_data["A"]) = 2
    /\ Len(parsed_data["EQUIP"]) = 1
    /\ parsed_data["COMMON_BLOOD"] = <<>>

----------------------------------------------------------------------------
(* C28 *)

\* the text of the plan's cell after carry-forward holds "mi seon taek"
C28_Negated(i, g) ==
    Contains(MISEL, C2_Carried(RawVal(plans[i], row'), fill_cache[i][g]))

\* C28 as claimed: in A, B, C a cell containing "mi seon taek" is cached like
\* any "seon taek" cell; with a replacement rule R (non-empty, not "-") the
\* value of the cell, and of a blank cell inheriting it, is R; the value is
\* empty only when the rule is empty, absent or "-".
C28_Claimed ==
    [][ \A g \in Groups :
          Appended(g) =>
             \A i \in 1..Len(plans) :
                LET raw  == RawVal(plans[i], row')
                    rule == GroupRule(plans[i], g)
                    v    == LastEntry(g).values[i]
                IN  /\ Contains(MISEL, raw) => fill_cache'[i][g] = raw
                    /\ C28_Negated(i, g) =>
                          /\ (rule # EmptyStr /\ rule # DASH) => v = rule
                          /\ v = EmptyStr => rule \in {EmptyStr, DASH} ]_vars

\* C28 as amended: the same, but a replacement rule R that itself contains
\* "mi seon taek" gives the empty value; so the value is R when R is non-empty,
\* not "-" and free of "mi seon taek", and empty in every other case.
C28_NegatedCellTakesRule ==
    [][ \A g \in Groups :
          Appended(g) =>
             \A i \in 1..Len(plans) :
                LET raw  == RawVal(plans[i], row')
                    rule == GroupRule(plans[i], g)
                    v    == LastEntry(g).values[i]
                IN  /\ Contains(MISEL, raw) => fill_cache'[i][g] = raw
                    /\ C28_Negated(i, g) =>
                          v = IF rule # EmptyStr /\ rule # DASH /\ ~Contains(MISEL, rule)
                              THEN rule ELSE EmptyStr ]_vars

\* a blank cell inherited a cached "mi seon taek" and its value is the plan's
\* rule "seon taek 2"
C28_Witness ==
    /\ pc = "rows"
    /\ IsDataRow(row)
    /\ \E g \in Groups :
          /\ current_main_cat = g
          /\ Len(parsed_data[g]) >= 2
          /\ \E i \in 1..Len(plans) :
                /\ GroupRule(plans[i], g) = S2
                /\ RawVal(plans[i], row) = EmptyStr
                /\ fill_cache[i][g] = MISEL
                /\ parsed_data[g][Len(parsed_data[g])].values[i] = S2
                /\ parsed_data[g][Len(parsed_data[g]) - 1].values[i] = S2

----------------------------------------------------------------------------
(* C29 *)

\* row r has at least two cells and its column 2 is empty or a sub-header label
C29_SubHeader(r) ==
    /\ Len(r) >= 2
    /\ \/ r[2] \in {NoneVal, EmptyStr}
       \/ Strip(r[2]) \in {EmptyStr, GEOMJINHANGMOK, NAEYONG}

\* C29: a row of at least two cells whose column 2 is empty or a sub-header
\* label appends nothing and leaves every cache as it was, whatever the plans'
\* columns hold, while a marker in its column 1 sets the category; a row of
\* fewer than two cells changes neither buckets, caches nor category.
C29_SkippedRows ==
    [][ (pc = "rows" /\ nrows' = nrows + 1) =>
          /\ C29_SubHeader(row') =>
                /\ parsed_data' = parsed_data
                /\ fill_cache' = fill_cache
                /\ current_main_cat' = C9_Selected(current_main_cat, row')
                /\ pc' = "rows"
          /\ Len(row') < 2 =>
                /\ parsed_data' = parsed_data
                /\ fill_cache' = fill_cache
                /\ current_main_cat' = current_main_cat
                /\ pc' = "rows" ]_vars

\* after an item of group A, a sub-header row labelled with the B marker was
\* read: the category is B, the A cache still holds "seon taek 3", and the
\* buckets hold the one item
C29_Witness ==
    /\ pc = "rows"
    /\ nrows = 3
    /\ Len(row) >= 2
    /\ row[1] = BGRP
    /\ row[2] = NAEYONG
    /\ current_main_cat = "B"
    /\ Len(parsed_data["A"]) = 1
    /\ \A k \in BucketKeys \ {"A"} : parsed_data[k] = <<>>
    /\ \E i \in 1..Len(plans) : fill_cache[i]["A"] = S3

----------------------------------------------------------------------------
(* C21 *)

\* the title rows of the detail tables that were written
C21_Titles == { xlrows.tables[k].title : k \in TableKeys } \ {0}

\* C21: the detail sheet gets exactly two row breaks; the first lies after the
\* last summary row and before the title row of the first detail table, the
\* second after the last row of every A, B, C table and before the title row
\* of the equipment/blood table, and the second lies below the first.
C21_PageBreaks ==
    pc = "excel" =>
        /\ Len(xlrows.breaks) = 2
        /\ xlrows.summary_last < xlrows.breaks[1]
        /\ \A t \in C21_Titles : xlrows.breaks[1] < t
        /\ \A k \in Groups : xlrows.tables[k].last < xlrows.breaks[2]
        /\ xlrows.tables["EQUIP"].title # 0
        /\ xlrows.breaks[2] < xlrows.tables["EQUIP"].title
        /\ xlrows.breaks[1] < xlrows.breaks[2]

\* a workbook without A, B and C items was written: the second break is the
\* row below the first, and the equipment/blood table starts below it
C21_Witness ==
    /\ pc = "excel"
    /\ \A k \in Groups : parsed_data[k] = <<>>
    /\ Len(parsed_data["EQUIP"]) >= 1
    /\ Len(plans) >= 1
    /\ xlrows.breaks[2] = xlrows.breaks[1] + 1
    /\ xlrows.tables["EQUIP"].title = xlrows.breaks[2] + 1
    /\ xlrows.tables["EQUIP"].last >= xlrows.tables["EQUIP"].title + 3

----------------------------------------------------------------------------
(* C27 *)

\* the value cells that row r of table k emits in column c
C27_Emitted(k, r, c) ==
    { cell \in { html[k][r][j] : j \in 1..Len(html[k][r]) } : cell.col = c }

\* the rows of table k that emit a cell in column c
C27_Heads(k, c) == { r \in 1..Len(html[k]) : C27_Emitted(k, r, c) # {} }

C27_Cell(k, r, c) == CHOOSE cell \in C27_Emitted(k, r, c) : TRUE

RECURSIVE C27_SpanSum(_, _, _)
C27_SpanSum(k, c, rows) ==
    IF rows = {} THEN 0
    ELSE LET r == CHOOSE x \in rows : TRUE
         IN  C27_Cell(k, r, c).rowspan + C27_SpanSum(k, c, rows \ {r})

----------------------------------------------------------------------------
(* The two merge loops on one and the same grid of display values *)

MaxGridRows == 4    \* rows of the grid handed to both loops

GridVals == { EmptyStr, <<"O">>, S3 }

GridWidths == {1, 2}

\* the rows a grid of w columns can hold
GridRows(w) == SeqsOf(GridVals, w)

\* len(plans) of the call that renders the grid
GridCols == IF span_grid = <<>> THEN 0 ELSE Len(span_grid[1])

\* the caller hands over one more row of display values
SpanAddRow ==
    /\ pc = "idle"
    /\ Len(span_grid) < MaxGridRows
    /\ \E w \in (IF span_grid = <<>> THEN GridWidths ELSE {GridCols}) :
          \E r \in GridRows(w) : span_grid' = Append(span_grid, r)
    /\ UNCHANGED <<parsevars, html, xl, xlrows, hmaps, xmerges, callvars, loadvars>>

\* render_table_html, lines 184-200, on the grid
SpanHtml ==
    /\ pc = "idle"
    /\ hmaps' = HtmlMaps(span_grid, 1, GridCols, TRUE)
    /\ pc' = "hspans"
    /\ UNCHANGED <<plans, width, nrows, row, current_main_cat, fill_cache,
                   parsed_data, summary_info, header_row, err>>
    /\ UNCHANGED <<html, xl, xlrows, span_grid, xmerges, callvars, loadvars>>

\* write_section, lines 728-743, on the grid
SpanXl ==
    /\ pc = "hspans"
    /\ xmerges' = XlMerges(span_grid, 1, GridCols, TRUE)
    /\ pc' = "spans"
    /\ UNCHANGED <<plans, width, nrows, row, current_main_cat, fill_cache,
                   parsed_data, summary_info, header_row, err>>
    /\ UNCHANGED <<html, xl, xlrows, span_grid, hmaps, callvars, loadvars>>

SpanNext == SpanAddRow \/ SpanHtml \/ SpanXl

SpecSpan == Init /\ [][SpanNext]_vars

(* C26 *)

\* the runs <<start row, length>> the markup loop gives to a column
C26_HtmlRuns(c) ==
    { <<r, hmaps[c].rowspan[r]>> : r \in { q \in 1..Len(span_grid) : ~hmaps[c].skip[q] } }

\* the runs the workbook loop gives to a column, an unmerged cell being a run of 1
C26_XlRuns(c) == XlRuns([grid |-> span_grid, merged |-> xmerges], c)

\* C26: on one and the same grid of display values the loop of the markup
\* renderer and the loop of the workbook renderer give every column the same
\* set of runs (start row, length).
C26_SameRunsOnSameGrid ==
    pc = "spans" =>
        /\ Len(hmaps) = GridCols
        /\ Len(xmerges) = GridCols
        /\ \A c \in 1..GridCols : C26_HtmlRuns(c) = C26_XlRuns(c)

\* both loops ran on a grid whose first column holds a value, an empty cell
\* and a run of the same value that reaches the last row
C26_Witness ==
    /\ pc = "spans"
    /\ Len(span_grid) = 4
    /\ Column(span_grid, 1) = <<S3, EmptyStr, S3, S3>>
    /\ C26_XlRuns(1) = { <<1, 1>>, <<2, 1>>, <<3, 2>> }

----------------------------------------------------------------------------
(* scan_default_counts on sheets of its own *)

MaxScanRows == 2    \* non-blank rows below the header of a scanned sheet

ASPACED == <<"A", " ", "geu", "rup">>
N2S3 == <<"2", "in", " ">> \o S3

ScanLabels == { NoneVal, AGRP, BGRP, CGRP, ASPACED, JANGBI }

ScanVals == { NoneVal, S3, S5, N2S3 }

ScanStart == 1      \* the header row of the scanned sheets
ScanCol == 2        \* the tier column of the scanned sheets

\* the rows below the header, as (label, value) pairs
ScanBodies ==
    UNION { SeqsOf({ <<l, v>> : l \in ScanLabels, v \in ScanVals }, n) : n \in 0..MaxScanRows }

\* the rows directly below the header, or the rows that end one row past the window
ScanPlacements == { "near", "far" }

ScanRowNo(place, n, i) ==
    IF place = "near" THEN ScanStart + i
    ELSE ScanStart + ScanWindow + 1 - (n - i)

ScanSheet(place, body) ==
    <<[r |-> ScanStart, cells |-> <<NoneVal, L55>>]>> \o
    [i \in 1..Len(body) |->
        [r |-> ScanRowNo(place, Len(body), i), cells |-> <<body[i][1], body[i][2]>>]]

ScanSheets == { ScanSheet(place, body) : place \in ScanPlacements, body \in ScanBodies }

\* the caller holds an open sheet and the tier column
ScanOpen ==
    /\ pc = "idle"
    /\ \E sh \in ScanSheets : lsheet' = sh
    /\ pc' = "scanning"
    /\ UNCHANGED <<plans, width, nrows, row, current_main_cat, fill_cache,
                   parsed_data, summary_info, header_row, err>>
    /\ UNCHANGED <<wb, header_row_idx, price_cols, ret, scan>>
    /\ UNCHANGED <<rendervars, callvars>>

\* lines 10-33
ScanCall ==
    /\ pc = "scanning"
    /\ scan' = [col_idx |-> ScanCol, start_row |-> ScanStart,
                counts |-> scan_default_counts(lsheet, ScanCol, ScanStart)]
    /\ pc' = "scanned"
    /\ UNCHANGED <<plans, width, nrows, row, current_main_cat, fill_cache,
                   parsed_data, summary_info, header_row, err>>
    /\ UNCHANGED <<wb, lsheet, header_row_idx, price_cols, ret>>
    /\ UNCHANGED <<rendervars, callvars>>

ScanNext == ScanOpen \/ ScanCall

SpecScan == Init /\ [][ScanNext]_vars

(* C25 *)

\* the non-blank rows of the window header+1 .. min(header+150, last sheet row)
C25_Window ==
    { i \in 1..Len(lsheet) :
        /\ lsheet[i].r >= scan.start_row + 1
        /\ lsheet[i].r <= Min2(scan.start_row + ScanWindow, MaxRow(lsheet)) }

C25_Label(i) == CellText(lsheet[i].cells[1])

C25_IsMarker(i) ==
    Contains(AGRP, C25_Label(i)) \/ Contains(BGRP, C25_Label(i)) \/ Contains(CGRP, C25_Label(i))

C25_MarkerGroup(i) ==
    IF Contains(AGRP, C25_Label(i)) THEN "a"
    ELSE IF Contains(BGRP, C25_Label(i)) THEN "b" ELSE "c"

\* the current group of a row: the group of the nearest marker row at or above it
C25_GroupAt(i) ==
    LET ms == { q \in C25_Window : q <= i /\ C25_IsMarker(q) }
    IN  IF ms = {} THEN ""
        ELSE C25_MarkerGroup(CHOOSE q \in ms : \A q2 \in ms : q2 <= q)

RECURSIVE C25_After(_, _)
\* the text behind the first occurrence of sub in s
C25_After(sub, s) ==
    IF Len(s) < Len(sub) THEN <<>>
    ELSE IF SubSeq(s, 1, Len(sub)) = sub THEN SubSeq(s, Len(sub) + 1, Len(s))
    ELSE C25_After(sub, Tail(s))

C25_Val(i) == CellText(CellAt(lsheet, lsheet[i].r, scan.col_idx))

\* the digits of the number N that follows the selection word, if any
C25_Digits(i) == FirstDigitRun(C25_After(SEL, C25_Val(i)))

C25_Numbers(g) ==
    { ToInt(C25_Digits(i)) :
        i \in { q \in C25_Window :
                  /\ C25_GroupAt(q) = g
                  /\ Contains(SEL, C25_Val(q))
                  /\ C25_Digits(q) # <<>> } }

C25_Max(S) == IF S = {} THEN 0 ELSE CHOOSE x \in S : \A y \in S : y <= x

\* C25: the scanned default of each group is the greatest number N over the
\* cells of the tier column that hold the selection word followed by N, in the
\* rows of the window whose current group is that group, and 0 when there is
\* no such cell.
C25_ScannedDefaults ==
    pc = "scanned" =>
        \A g \in {"a", "b", "c"} : scan.counts[g] = C25_Max(C25_Numbers(g))

(* C30 *)

RECURSIVE C30_ParseCat(_)
\* current_main_cat of parse_data_from_excel after the i-th non-blank row of
\* the sheet, the header row being the first (a blank row holds no marker)
C30_ParseCat(i) ==
    IF i <= 1 THEN ""
    ELSE NextCat(C30_ParseCat(i - 1), RemoveSpaces(CellText(lsheet[i].cells[1])))

C30_Upper(g) == IF g = "a" THEN "A" ELSE IF g = "b" THEN "B" ELSE "C"

\* the numbers of the selection cells in the rows of the window that the
\* parser assigns to category g
C30_NumbersInBlock(g) ==
    { ToInt(FirstDigitRun(C25_Val(i))) :
        i \in { q \in C25_Window :
                  /\ C30_ParseCat(q) = C30_Upper(g)
                  /\ Contains(SEL, C25_Val(q))
                  /\ FirstDigitRun(C25_Val(q)) # <<>> } }

\* the scan takes the label of row i for a group marker
C30_ScanSeesMarker(i) ==
    ScanRow(lsheet, scan.col_idx, lsheet[i].r,
            [current_cat |-> "", counts |-> [a |-> 0, b |-> 0, c |-> 0]]).current_cat # ""

\* the parser takes the label of row i for an A/B/C marker
C30_ParseSeesMarker(i) ==
    NextCat("", RemoveSpaces(CellText(lsheet[i].cells[1]))) \in {"A", "B", "C"}

\* C30: the scan counts a selection cell towards group g only when the parser
\* assigns the row to category g (equipment and blood/urine markers end a
\* group block), and a group marker is recognised by both walks or by neither.
C30_WalksAgree ==
    pc = "scanned" =>
        /\ \A g \in {"a", "b", "c"} :
              scan.counts[g] \in ({0} \cup C30_NumbersInBlock(g))
        /\ \A i \in C25_Window : C30_ScanSeesMarker(i) <=> C30_ParseSeesMarker(i)

====
